---- MODULE Spec2Model ----
(***************************************************************************)
(* Identity store of namesphere-v2: the DatabaseStorage identity methods   *)
(* (createIdentity, updateIdentity, deleteIdentity, setPrimaryIdentity and *)
(* the reads) together with the /api/identities route handlers that call   *)
(* them.  The relational store is modelled at read-committed isolation:    *)
(* every transaction buffers its writes until it commits, a statement sees *)
(* the committed rows overlaid with the transaction's own writes, and a    *)
(* statement that must touch a row written by another open transaction     *)
(* waits for that transaction to end.                                      *)
(***************************************************************************)
EXTENDS Integers, Sequences, FiniteSets, TLC

\* ------------------------------------------------------------------ bounds
MaxIds == 3      \* ids gen_random_uuid() hands out during one run
MaxOps == 2      \* requests that arrive during one run
MaxClock == 1    \* last value of the logical clock behind defaultNow()
InitRows == 2    \* rows of the largest store a run starts from
MaxText == 3     \* symbols of the longest text a formatter is called with
MaxAccept == 3   \* media ranges of the longest Accept header
MaxXmlText == 6  \* symbols of the longest text given to safeCdata
MaxPublicRows == 3   \* rows of the largest store the public reads run on

Users == {"u1", "u2"}
Procs == {"p1", "p2"}
Contexts == {"work", "social"}
Ids == 1..MaxIds
\* ids a request may name; one that is in no row at the time names nothing
ReqIds == Ids

\* is_primary is "boolean().default(false)" without notNull(): three values
PrimaryValues == {"true", "false", "null"}
Absent == "absent"
\* what a request body may carry as context: a stored one or any other string
BodyContexts == Contexts \cup {"invalid-context"}
\* the interleaved specification draws the contexts from the stored ones only
ContextsSent(serial) == IF serial THEN BodyContexts ELSE Contexts
\* what a request body may carry as id (0: no such field) and as userId
BodyIds == {0, MaxIds}
BodyUserIds == {Absent, "u2"}
\* the interleaved specification sends no id and no userId in its bodies
BodyIdsSent(serial) == IF serial THEN BodyIds ELSE {0}
BodyUserIdsSent(serial) == IF serial THEN BodyUserIds ELSE {Absent}

VARIABLES
    identities,   \* committed rows of table identities: id -> row
    auditLogs,    \* committed rows of table audit_logs, in insertion order
    nextId,       \* next id gen_random_uuid() yields
    now,          \* logical clock
    ops,          \* requests arrived so far
    pc,           \* per request slot: position in its handler
    req,          \* per request slot: the request being served
    existing,     \* per request slot: rows bound to `existing` / `updated`
    txRows,       \* per request slot: uncommitted inserts and updates
    txDeleted,    \* per request slot: uncommitted deletes
    resp,         \* per request slot: the response sent
    snap,         \* per request slot: committed store when the request arrived
    call,         \* a call of a formatting function: its argument and its result
    wire          \* a read request on its way through the gate and its route

coreVars == <<identities, auditLogs, nextId, now, ops, pc, req, existing,
              txRows, txDeleted, resp, snap>>

vars == <<identities, auditLogs, nextId, now, ops, pc, req, existing,
          txRows, txDeleted, resp, snap, call, wire>>

\* ------------------------------------------------------------------ rows
Row(u, prim, ctx, t) ==
    [userId |-> u, isPrimary |-> prim, context |-> ctx, createdAt |-> t]

\* a row as the API returns it: the row together with its id
Rec(tbl, id) ==
    [id |-> id, userId |-> tbl[id].userId, isPrimary |-> tbl[id].isPrimary,
     context |-> tbl[id].context, createdAt |-> tbl[id].createdAt]

\* the test "the field is there" in place of "the field is true"
Given(v) == v \in {"true", "false"}

\* if (identity.isPrimary), if (updates.isPrimary)
Truthy(v) == v = "true"

OwnedBy(tbl, u) == {i \in DOMAIN tbl : tbl[i].userId = u}
PrimariesOf(tbl, u) == {i \in OwnedBy(tbl, u) : tbl[i].isPrimary = "true"}

AuditEntry(u, id, operation) ==
    [userId |-> u, entity |-> "identity", entityId |-> id, operation |-> operation]

NoReq == [op |-> "none", userId |-> "u1", id |-> 0, isPrimary |-> Absent, context |-> Absent,
          bodyId |-> 0, bodyUserId |-> Absent, forged |-> FALSE]
NoResp == [status |-> 0, message |-> "", items |-> <<>>]
NoSnap == [identities |-> <<>>, auditLogs |-> <<>>]
EmptyRows == <<>>

\* ------------------------------------------------------------------ reads
\* the select with its owner condition left out
SelectAny(tbl, id, u) ==
    IF id \in DOMAIN tbl THEN <<Rec(tbl, id)>> ELSE <<>>

\* where(and(eq(identities.id, id), eq(identities.userId, userId)))
SelectOwned(tbl, id, u) ==
    IF id \in DOMAIN tbl /\ tbl[id].userId = u THEN <<Rec(tbl, id)>> ELSE <<>>

\* ORDER BY is_primary DESC, created_at DESC.  PostgreSQL sorts NULL as larger
\* than every value, so DESC puts the rows with is_primary NULL first.
PrimaryRank(v) == CASE v = "null" -> 2 [] v = "true" -> 1 [] OTHER -> 0

SortsBefore(a, b) ==
    \/ PrimaryRank(a.isPrimary) > PrimaryRank(b.isPrimary)
    \/ /\ PrimaryRank(a.isPrimary) = PrimaryRank(b.isPrimary)
       /\ a.createdAt > b.createdAt

Matching(tbl, u, ctx) ==
    {i \in DOMAIN tbl : tbl[i].userId = u /\ (ctx # Absent => tbl[i].context = ctx)}

Orderings(S) ==
    {s \in [1..Cardinality(S) -> S] : \A i, j \in 1..Cardinality(S) : i # j => s[i] # s[j]}

\* every result the ordered select may return (rows with equal keys come in any order)
getIdentities(tbl, u, ctx) ==
    {[k \in 1..Len(s) |-> Rec(tbl, s[k])] :
        s \in {o \in Orderings(Matching(tbl, u, ctx)) :
                 \A i, j \in 1..Len(o) :
                    i < j => ~SortsBefore(tbl[o[j]], tbl[o[i]])}}

getIdentity(tbl, id, u) == SelectOwned(tbl, id, u)

\* const [identity] = select ... where userId = u and isPrimary = true: the
\* first row of an unordered select, or nothing
getPrimaryIdentity(tbl, u) ==
    IF PrimariesOf(tbl, u) = {} THEN {<<>>}
    ELSE {<<Rec(tbl, i)>> : i \in PrimariesOf(tbl, u)}

\* ------------------------------------------------------------------ transactions
Overlay(tbl, rows, deleted) ==
    [i \in (DOMAIN tbl \cup DOMAIN rows) \ deleted |->
        IF i \in DOMAIN rows THEN rows[i] ELSE tbl[i]]

\* what a statement of p's transaction sees
View(p) == Overlay(identities, txRows[p], txDeleted[p])

\* committed rows p's open transaction has written and therefore locked
Locked(p) == (DOMAIN txRows[p] \cap DOMAIN identities) \cup txDeleted[p]

Blocked(p, ids) == \E q \in Procs \ {p} : ids \cap Locked(q) # {}

InProgress(p) == pc[p] \notin {"idle", "done"}

\* db.transaction: the callback returned, the transaction commits
CommittedRows(tbl, rows, deleted) == Overlay(tbl, rows, deleted)

\* a failure that keeps what the transaction wrote
RolledBackRowsKept(tbl, rows, deleted) == Overlay(tbl, rows, deleted)

\* db.transaction: the callback threw, the transaction rolls back
RolledBackRows(tbl, rows, deleted) == tbl

\* the unset statement without its owner condition
UnsetTargetsEveryOwner(view, u) == {i \in DOMAIN view : view[i].isPrimary = "true"}

\* the unset statement left out (or its where clause matching no row)
UnsetTargetsNone(view, u) == {}

\* .set({ isPrimary: false }).where(and(eq(userId), eq(isPrimary, true)))
UnsetTargets(view, u) == PrimariesOf(view, u)

UnsetPrimary(p) ==
    LET view == View(p)
        ids == UnsetTargets(view, req[p].userId)
    IN  [i \in DOMAIN txRows[p] \cup ids |->
            IF i \in ids THEN [view[i] EXCEPT !.isPrimary = "false"]
            ELSE txRows[p][i]]

\* the count check also taken by a caller who owns nothing
IsOnlyIdentityAtMost(n) == n <= 1

\* the route's count check left out
IsOnlyIdentityNever(n) == FALSE

\* allIdentities.length === 1
IsOnlyIdentity(n) == n = 1

\* A response goes out the moment its handler ends: position "done" only holds
\* the response for inspection, and nothing else happens before Reply.
NoneDone == \A q \in Procs : pc[q] # "done"

\* slot p stands at position pos of its handler and may take its next step
At(p, pos) == NoneDone /\ pc[p] = pos

Arrive(p, serial) ==
    /\ At(p, "idle")
    /\ ops < MaxOps
    /\ serial => \A q \in Procs \ {p} : ~InProgress(q)

Snapshot == [identities |-> identities, auditLogs |-> auditLogs]

Resp(status, message, items) == [status |-> status, message |-> message, items |-> items]

\* the request slot p goes on with its handler, at position next
Goto(p, next) == pc' = [pc EXCEPT ![p] = next]

\* the handler of slot p answers; what its transaction wrote stays in the slot
\* for inspection until Reply
Finish(p, r) ==
    /\ pc' = [pc EXCEPT ![p] = "done"]
    /\ resp' = [resp EXCEPT ![p] = r]
    /\ UNCHANGED <<existing, txRows, txDeleted>>

\* a commit that rewrites the audit log instead of appending to it
CommitReplacing(p, entry) ==
    /\ identities' = CommittedRows(identities, txRows[p], txDeleted[p])
    /\ auditLogs' = <<entry>>

\* the audit insert is the last statement of every callback: when it has run
\* the callback returns and the rows and the audit entry commit together
Commit(p, entry) ==
    /\ identities' = CommittedRows(identities, txRows[p], txDeleted[p])
    /\ auditLogs' = Append(auditLogs, entry)

Rollback(p) ==
    /\ identities' = RolledBackRows(identities, txRows[p], txDeleted[p])
    /\ auditLogs' = auditLogs

Accept(p, r) ==
    /\ req' = [req EXCEPT ![p] = r]
    /\ snap' = [snap EXCEPT ![p] = Snapshot]
    /\ ops' = ops + 1

Request(op, u, id, prim, ctx) ==
    [op |-> op, userId |-> u, id |-> id, isPrimary |-> prim, context |-> ctx,
     bodyId |-> 0, bodyUserId |-> Absent, forged |-> FALSE]

\* ------------------------------------------------------------------ request bodies
Body(prim, ctx, id, u) == [isPrimary |-> prim, context |-> ctx, id |-> id, userId |-> u]

\* a schema that lets the id and userId of the body through
OmitNothing(body) == body

\* createInsertSchema(identities).omit({ id, userId, createdAt, updatedAt }):
\* the parsed data has no such keys, whatever the body holds
OmitKeys(body) == [body EXCEPT !.id = 0, !.userId = Absent]

\* a context column checked against the list legal, work, social, gaming
ContextInEnumeration(ctx) == ctx \in {"legal", "work", "social", "gaming"}

\* context: text("context").notNull() becomes z.string(): any string passes
ContextAccepted(ctx) == TRUE

\* insertIdentitySchema.safeParse(body).success: context is required
InsertSuccess(body) == body.context # Absent /\ ContextAccepted(body.context)

\* updateIdentitySchema = insertIdentitySchema.partial(): every field optional
UpdateSuccess(body) == body.context # Absent => ContextAccepted(body.context)

\* validation.data
Parsed(body) == OmitKeys(body)

\* the body carries an id or a userId of its own
Forged(body) == body.id # 0 \/ body.userId # Absent

\* the request of slot p as the handler holds it after validation: the data,
\* and whether the body it was parsed from was forged
RequestWith(op, u, id, body) ==
    [Request(op, u, id, Parsed(body).isPrimary, Parsed(body).context)
        EXCEPT !.bodyId = Parsed(body).id, !.bodyUserId = Parsed(body).userId,
               !.forged = Forged(body)]

ValidationError == [status |-> 400, message |-> "Validation error", items |-> <<>>]

\* ------------------------------------------------------------------ POST /api/identities
\* The route validates the body and looks the current primary up (a read whose
\* result changes nothing), then storage.createIdentity opens its transaction.
CreateBegin(p, serial) ==
    /\ Arrive(p, serial)
    /\ nextId <= MaxIds
    /\ \E u \in Users, prim \in PrimaryValues \cup {Absent}, ctx \in ContextsSent(serial) \cup {Absent},
          bid \in BodyIdsSent(serial), buid \in BodyUserIdsSent(serial) :
          LET body == Body(prim, ctx, bid, buid)
          IN  IF InsertSuccess(body)
              THEN /\ Accept(p, RequestWith("create", u, 0, body))
                   /\ Goto(p, IF Truthy(prim) THEN "c_unset" ELSE "c_insert")
                   /\ UNCHANGED <<existing, txRows, txDeleted, resp>>
              ELSE /\ Accept(p, Request("create", u, 0, prim, ctx))
                   /\ Finish(p, ValidationError)
    /\ UNCHANGED <<identities, auditLogs, nextId, now>>
    /\ UNCHANGED <<call, wire>>

\* if (identity.isPrimary) update ... set isPrimary = false where userId and isPrimary
CreateUnset(p) ==
    /\ At(p, "c_unset")
    /\ ~Blocked(p, UnsetTargets(View(p), req[p].userId))
    /\ txRows' = [txRows EXCEPT ![p] = UnsetPrimary(p)]
    /\ Goto(p, "c_insert")
    /\ UNCHANGED <<identities, auditLogs, nextId, now, ops, req, existing, txDeleted, resp, snap>>
    /\ UNCHANGED <<call, wire>>

\* insert(identities).values({ ...identity, userId }).returning(): userId is
\* the caller's whatever the data holds; the id and created_at take their
\* defaults when the data has none, is_primary its default when the body has
\* none.  An id that is taken violates the primary key: the statement throws.
CreateInsert(p) ==
    /\ At(p, "c_insert")
    /\ nextId <= MaxIds
    /\ LET id == IF req[p].bodyId = 0 THEN nextId ELSE req[p].bodyId
       IN  /\ id \notin DOMAIN identities \cup DOMAIN txRows[p]
           /\ \E t \in {now, IF now < MaxClock THEN now + 1 ELSE now} :
                 LET prim == IF req[p].isPrimary = Absent THEN "false" ELSE req[p].isPrimary
                     row == Row(req[p].userId, prim, req[p].context, t)
                     rows == [i \in DOMAIN txRows[p] \cup {id} |->
                                 IF i = id THEN row ELSE txRows[p][i]]
                 IN  /\ txRows' = [txRows EXCEPT ![p] = rows]
                     /\ existing' = [existing EXCEPT ![p] = <<Rec(rows, id)>>]
                     /\ now' = t
           /\ nextId' = IF id = nextId THEN nextId + 1 ELSE nextId
    /\ Goto(p, "c_audit")
    /\ UNCHANGED <<identities, auditLogs, ops, req, txDeleted, resp, snap>>
    /\ UNCHANGED <<call, wire>>

\* insert(auditLogs) operation "create"; return newIdentity; 201
CreateAudit(p) ==
    /\ At(p, "c_audit")
    /\ Commit(p, AuditEntry(req[p].userId, existing[p][1].id, "create"))
    /\ Finish(p, Resp(201, "", existing[p]))
    /\ UNCHANGED <<nextId, now, ops, req, snap>>
    /\ UNCHANGED <<call, wire>>

\* ------------------------------------------------------------------ PUT|PATCH /api/identities/:id
\* the patches a request carries: the empty one and those with one field
Patches ==
    {[isPrimary |-> prim, context |-> Absent] : prim \in PrimaryValues \cup {Absent}}
    \cup {[isPrimary |-> Absent, context |-> ctx] : ctx \in BodyContexts}

PatchesSent(serial) == {patch \in Patches : patch.context \in ContextsSent(serial) \cup {Absent}}

\* storage.updateIdentity: select the row by id and owner; none: 404
UpdateBegin(p, serial) ==
    /\ Arrive(p, serial)
    /\ \E u \in Users, id \in ReqIds, patch \in PatchesSent(serial), bid \in BodyIdsSent(serial), buid \in BodyUserIdsSent(serial) :
          LET body == Body(patch.isPrimary, patch.context, bid, buid)
              found == SelectOwned(identities, id, u)
          IN  IF ~UpdateSuccess(body)
              THEN /\ Accept(p, Request("update", u, id, patch.isPrimary, patch.context))
                   /\ Finish(p, ValidationError)
              ELSE /\ Accept(p, RequestWith("update", u, id, body))
                   /\ IF found = <<>>
                      THEN /\ Finish(p, Resp(404, "Identity not found", <<>>))
                      ELSE /\ Goto(p, IF Truthy(patch.isPrimary) THEN "u_unset" ELSE "u_set")
                           /\ existing' = [existing EXCEPT ![p] = found]
                           /\ UNCHANGED <<txRows, txDeleted, resp>>
    /\ UNCHANGED <<identities, auditLogs, nextId, now>>
    /\ UNCHANGED <<call, wire>>

UpdateUnset(p) ==
    /\ At(p, "u_unset")
    /\ ~Blocked(p, UnsetTargets(View(p), req[p].userId))
    /\ txRows' = [txRows EXCEPT ![p] = UnsetPrimary(p)]
    /\ Goto(p, "u_set")
    /\ UNCHANGED <<identities, auditLogs, nextId, now, ops, req, existing, txDeleted, resp, snap>>
    /\ UNCHANGED <<call, wire>>

\* a set that writes every column, the defaults where the patch has no field
PatchedWhole(row, r) ==
    [row EXCEPT !.isPrimary = IF r.isPrimary = Absent THEN "false" ELSE r.isPrimary,
                !.context = IF r.context = Absent THEN "work" ELSE r.context]

\* .set({ ...updates, updatedAt }): the fields the patch carries overwrite the row's
Patched(row, r) ==
    [row EXCEPT !.isPrimary = IF r.isPrimary = Absent THEN @ ELSE r.isPrimary,
                !.context = IF r.context = Absent THEN @ ELSE r.context,
                !.userId = IF r.bodyUserId = Absent THEN @ ELSE r.bodyUserId]

\* update ... where id and userId ... returning(): no row when it is gone by
\* now.  An id among the updates would move the row to that id (and throw when
\* it is taken).
UpdateSet(p) ==
    /\ At(p, "u_set")
    /\ ~Blocked(p, {req[p].id})
    /\ LET view == View(p)
           id == req[p].id
           to == IF req[p].bodyId = 0 THEN id ELSE req[p].bodyId
       IN  IF SelectOwned(view, id, req[p].userId) = <<>>
           THEN /\ existing' = [existing EXCEPT ![p] = <<>>]
                /\ UNCHANGED <<txRows, txDeleted>>
           ELSE LET rows == [i \in DOMAIN txRows[p] \cup {to} |->
                               IF i = to THEN Patched(view[id], req[p]) ELSE txRows[p][i]]
                IN  /\ to # id => to \notin DOMAIN view
                    /\ txRows' = [txRows EXCEPT ![p] = rows]
                    /\ txDeleted' = [txDeleted EXCEPT ![p] = IF to = id THEN @ ELSE @ \cup {id}]
                    /\ existing' = [existing EXCEPT ![p] = <<Rec(rows, to)>>]
    /\ Goto(p, "u_audit")
    /\ UNCHANGED <<identities, auditLogs, nextId, now, ops, req, resp, snap>>
    /\ UNCHANGED <<call, wire>>

\* insert(auditLogs) operation "update"; return updated; the route answers 404
\* when updated is undefined
UpdateAudit(p) ==
    /\ At(p, "u_audit")
    /\ Commit(p, AuditEntry(req[p].userId, req[p].id, "update"))
    /\ Finish(p, IF existing[p] = <<>> THEN Resp(404, "Identity not found", <<>>)
                 ELSE Resp(200, "", existing[p]))
    /\ UNCHANGED <<nextId, now, ops, req, snap>>
    /\ UNCHANGED <<call, wire>>

\* ------------------------------------------------------------------ DELETE /api/identities/:id
\* The route counts the caller's identities first, outside any transaction:
\* exactly one: 400, and storage.deleteIdentity is never called
DeleteBegin(p, serial) ==
    /\ Arrive(p, serial)
    /\ \E u \in Users, id \in ReqIds :
          /\ Accept(p, Request("delete", u, id, Absent, Absent))
          /\ IF IsOnlyIdentity(Cardinality(OwnedBy(identities, u)))
             THEN Finish(p, Resp(400, "Cannot delete your only identity", <<>>))
             ELSE /\ Goto(p, "d_select")
                  /\ UNCHANGED <<existing, txRows, txDeleted, resp>>
    /\ UNCHANGED <<identities, auditLogs, nextId, now>>
    /\ UNCHANGED <<call, wire>>

\* storage.deleteIdentity: select the row by id and owner; none: return false, 404
DeleteSelect(p) ==
    /\ At(p, "d_select")
    /\ LET found == SelectOwned(View(p), req[p].id, req[p].userId)
       IN  IF found = <<>>
           THEN Finish(p, Resp(404, "Identity not found", <<>>))
           ELSE /\ Goto(p, "d_delete")
                /\ existing' = [existing EXCEPT ![p] = found]
                /\ UNCHANGED <<txRows, txDeleted, resp>>
    /\ UNCHANGED <<identities, auditLogs, nextId, now, ops, req, snap>>
    /\ UNCHANGED <<call, wire>>

\* delete ... where id and userId; existing[p] keeps the deleted row, so that
\* its length is result.rowCount
DeleteRow(p) ==
    /\ At(p, "d_delete")
    /\ ~Blocked(p, {req[p].id})
    /\ IF SelectOwned(View(p), req[p].id, req[p].userId) = <<>>
       THEN /\ existing' = [existing EXCEPT ![p] = <<>>]
            /\ UNCHANGED txDeleted
       ELSE /\ txDeleted' = [txDeleted EXCEPT ![p] = @ \cup {req[p].id}]
            /\ UNCHANGED existing
    /\ Goto(p, "d_audit")
    /\ UNCHANGED <<identities, auditLogs, nextId, now, ops, req, txRows, resp, snap>>
    /\ UNCHANGED <<call, wire>>

\* insert(auditLogs) operation "delete"; return rowCount > 0; false: 404, true: 204
DeleteAudit(p) ==
    /\ At(p, "d_audit")
    /\ Commit(p, AuditEntry(req[p].userId, req[p].id, "delete"))
    /\ Finish(p, IF Len(existing[p]) > 0 THEN Resp(204, "", <<>>)
                 ELSE Resp(404, "Identity not found", <<>>))
    /\ UNCHANGED <<nextId, now, ops, req, snap>>
    /\ UNCHANGED <<call, wire>>

\* ------------------------------------------------------------------ POST /api/identities/:id/set-primary
\* storage.setPrimaryIdentity: select the row by id and owner; none: 404
SetPrimaryBegin(p, serial) ==
    /\ Arrive(p, serial)
    /\ \E u \in Users, id \in ReqIds :
          /\ Accept(p, Request("set-primary", u, id, Absent, Absent))
          /\ LET found == SelectOwned(identities, id, u)
             IN  IF found = <<>>
                 THEN Finish(p, Resp(404, "Identity not found", <<>>))
                 ELSE /\ Goto(p, "s_unset")
                      /\ existing' = [existing EXCEPT ![p] = found]
                      /\ UNCHANGED <<txRows, txDeleted, resp>>
    /\ UNCHANGED <<identities, auditLogs, nextId, now>>
    /\ UNCHANGED <<call, wire>>

\* the unset statement issued on db instead of tx: it commits at once
SetPrimaryUnsetOnDb(p) ==
    /\ At(p, "s_unset")
    /\ identities' = Overlay(identities, UnsetPrimary(p), {})
    /\ Goto(p, "s_set")
    /\ UNCHANGED <<auditLogs, nextId, now, ops, req, existing, txRows, txDeleted, resp, snap>>
    /\ UNCHANGED <<call, wire>>

SetPrimaryUnset(p) ==
    /\ At(p, "s_unset")
    /\ ~Blocked(p, UnsetTargets(View(p), req[p].userId))
    /\ txRows' = [txRows EXCEPT ![p] = UnsetPrimary(p)]
    /\ Goto(p, "s_set")
    /\ UNCHANGED <<identities, auditLogs, nextId, now, ops, req, existing, txDeleted, resp, snap>>
    /\ UNCHANGED <<call, wire>>

\* .set({ isPrimary: true }).where(and(eq(id), eq(userId))).returning()
SetPrimarySet(p) ==
    /\ At(p, "s_set")
    /\ ~Blocked(p, {req[p].id})
    /\ LET view == View(p)
           id == req[p].id
       IN  IF SelectOwned(view, id, req[p].userId) = <<>>
           THEN /\ existing' = [existing EXCEPT ![p] = <<>>]
                /\ UNCHANGED txRows
           ELSE LET rows == [i \in DOMAIN txRows[p] \cup {id} |->
                               IF i = id THEN [view[id] EXCEPT !.isPrimary = "true"]
                               ELSE txRows[p][i]]
                IN  /\ txRows' = [txRows EXCEPT ![p] = rows]
                    /\ existing' = [existing EXCEPT ![p] = <<Rec(rows, id)>>]
    /\ Goto(p, "s_audit")
    /\ UNCHANGED <<identities, auditLogs, nextId, now, ops, req, txDeleted, resp, snap>>
    /\ UNCHANGED <<call, wire>>

SetPrimaryAudit(p) ==
    /\ At(p, "s_audit")
    /\ Commit(p, AuditEntry(req[p].userId, req[p].id, "set-primary"))
    /\ Finish(p, IF existing[p] = <<>> THEN Resp(404, "Identity not found", <<>>)
                 ELSE Resp(200, "", existing[p]))
    /\ UNCHANGED <<nextId, now, ops, req, snap>>
    /\ UNCHANGED <<call, wire>>

\* ------------------------------------------------------------------ reads
\* Each read is one select outside any transaction: it sees the committed rows
\* and waits for nobody.
\* GET /api/identities[?context=]
ListIdentities(p) ==
    /\ Arrive(p, FALSE)
    /\ \E u \in Users, ctx \in Contexts \cup {Absent} :
          /\ Accept(p, Request("list", u, 0, Absent, ctx))
          /\ \E result \in getIdentities(identities, u, ctx) :
                Finish(p, Resp(200, "", result))
    /\ UNCHANGED <<identities, auditLogs, nextId, now>>
    /\ UNCHANGED <<call, wire>>

\* GET /api/identities/:id
GetIdentity(p) ==
    /\ Arrive(p, FALSE)
    /\ \E u \in Users, id \in ReqIds :
          /\ Accept(p, Request("get", u, id, Absent, Absent))
          /\ LET found == getIdentity(identities, id, u)
             IN  Finish(p, IF found = <<>> THEN Resp(404, "Identity not found", <<>>)
                           ELSE Resp(200, "", found))
    /\ UNCHANGED <<identities, auditLogs, nextId, now>>
    /\ UNCHANGED <<call, wire>>

\* storage.getPrimaryIdentity(userId)
GetPrimary(p) ==
    /\ Arrive(p, FALSE)
    /\ \E u \in Users :
          /\ Accept(p, Request("primary", u, 0, Absent, Absent))
          /\ \E result \in getPrimaryIdentity(identities, u) :
                Finish(p, Resp(200, "", result))
    /\ UNCHANGED <<identities, auditLogs, nextId, now>>
    /\ UNCHANGED <<call, wire>>

\* ------------------------------------------------------------------ failure and reply
WriteSteps == {"c_unset", "c_insert", "c_audit", "u_unset", "u_set", "u_audit",
               "d_delete", "d_audit", "s_unset", "s_set", "s_audit"}

FailureMessage(op) ==
    CASE op = "create" -> "Failed to create identity"
      [] op = "update" -> "Failed to update identity"
      [] op = "delete" -> "Failed to delete identity"
      [] OTHER -> "Failed to set primary identity"

\* The write statement at hand throws (a lost connection, a deadlock the store
\* breaks, a constraint): db.transaction rolls back and rethrows, the route's
\* catch answers 500.
Fault(p) ==
    /\ NoneDone
    /\ pc[p] \in WriteSteps
    /\ Rollback(p)
    /\ Finish(p, Resp(500, FailureMessage(req[p].op), <<>>))
    /\ UNCHANGED <<nextId, now, ops, req, snap>>
    /\ UNCHANGED <<call, wire>>

\* the response has gone out; the slot is free for the next request
Reply(p) ==
    /\ pc[p] = "done"
    /\ pc' = [pc EXCEPT ![p] = "idle"]
    /\ req' = [req EXCEPT ![p] = NoReq]
    /\ resp' = [resp EXCEPT ![p] = NoResp]
    /\ snap' = [snap EXCEPT ![p] = NoSnap]
    /\ existing' = [existing EXCEPT ![p] = <<>>]
    /\ txRows' = [txRows EXCEPT ![p] = EmptyRows]
    /\ txDeleted' = [txDeleted EXCEPT ![p] = {}]
    /\ UNCHANGED <<identities, auditLogs, nextId, now, ops>>
    /\ UNCHANGED <<call, wire>>

\* ------------------------------------------------------------------ text
\* A text is a sequence of symbols.  A symbol is one of the characters the
\* formatters look at, or a word: a run of characters none of them looks at.
Chars == {"=", "+", "-", "@", ",", "\"", "\n", "\r", "'", "a"}

TextsUpTo(n) == UNION {[1..k -> Chars] : k \in 0..n}
Texts == TextsUpTo(MaxText)

\* null in a text column
Null == <<"null">>

\* value || ''
orEmpty(value) == IF value = Null THEN <<>> ELSE value

\* identity.<name> of an object that may lack the property: undefined reads as
\* null does wherever the formatters test the value
property(identity, name) == IF name \in DOMAIN identity THEN identity[name] ELSE Null

startsWith(value, c) == Len(value) > 0 /\ value[1] = c

includes(value, c) == \E k \in 1..Len(value) : value[k] = c

\* a replace that leaves the double quotes single
RECURSIVE replaceQuotesNot(_)
replaceQuotesNot(value) ==
    IF value = <<>> THEN <<>>
    ELSE <<Head(value)>> \o replaceQuotesNot(Tail(value))

\* value.replace(/"/g, '""')
RECURSIVE replaceQuotes(_)
replaceQuotes(value) ==
    IF value = <<>> THEN <<>>
    ELSE (IF Head(value) = "\"" THEN <<"\"", "\"">> ELSE <<Head(value)>>)
         \o replaceQuotes(Tail(value))

\* parts.join(sep)
RECURSIVE join(_, _)
join(parts, sep) ==
    IF parts = <<>> THEN <<>>
    ELSE IF Len(parts) = 1 THEN parts[1]
    ELSE parts[1] \o sep \o join(Tail(parts), sep)

\* ------------------------------------------------------------------ content negotiation
MediaTypes == {"application/vnd.api+json", "text/csv", "application/xml",
               "application/json", "text/html", "*/*",
               "application/xml-dtd", "text/csv;q=0.5"}

\* the Accept header: its media ranges in order; none when the header is
\* absent or empty
AcceptHeaders == UNION {[1..k -> MediaTypes] : k \in 0..MaxAccept}

\* needle is a substring of the media range
Contains(range, needle) ==
    \/ range = needle
    \/ range = "application/xml-dtd" /\ needle = "application/xml"
    \/ range = "text/csv;q=0.5" /\ needle = "text/csv"

\* acceptHeader.includes(needle)
headerIncludes(acceptHeader, needle) ==
    \E k \in 1..Len(acceptHeader) : Contains(acceptHeader[k], needle)

\* a negotiation that goes by the first media range of the header
negotiateFirstRange(accept) ==
    LET acceptHeader == IF accept = <<>> THEN <<"application/json">> ELSE accept
    IN  IF Contains(acceptHeader[1], "application/vnd.api+json") THEN "json-api"
        ELSE IF Contains(acceptHeader[1], "text/csv") THEN "csv"
        ELSE IF Contains(acceptHeader[1], "application/xml") THEN "xml"
        ELSE "json"

negotiateContent(accept) ==
    LET acceptHeader == IF accept = <<>> THEN <<"application/json">> ELSE accept
    IN  IF headerIncludes(acceptHeader, "application/vnd.api+json") THEN "json-api"
        ELSE IF headerIncludes(acceptHeader, "text/csv") THEN "csv"
        ELSE IF headerIncludes(acceptHeader, "application/xml") THEN "xml"
        ELSE "json"

\* ------------------------------------------------------------------ CSV
FormulaChars == {"=", "+", "-", "@"}

needsQuotes(value) ==
    includes(value, ",") \/ includes(value, "\n") \/ includes(value, "\r")
        \/ includes(value, "\"")

\* an escape without the formula guard
escapeCsvUnguarded(value) ==
    IF needsQuotes(value) THEN <<"\"">> \o replaceQuotes(value) \o <<"\"">> ELSE value

escapeCsv(value) ==
    LET guarded == IF \E c \in FormulaChars : startsWith(value, c)
                   THEN <<"'">> \o value ELSE value
    IN  IF needsQuotes(guarded)
        THEN <<"\"">> \o replaceQuotes(guarded) \o <<"\"">>
        ELSE guarded

\* JSON.stringify(identity.socialLinks) for no link, one link, two links
stringifyLinks(links) ==
    CASE links = "none" -> <<"{}">>
      [] links = "one" ->
            <<"{", "\"", "github", "\"", ":", "\"", "https://github.com/johndoe", "\"", "}">>
      [] OTHER ->
            <<"{", "\"", "github", "\"", ":", "\"", "https://github.com/johndoe", "\"", ",",
              "\"", "web", "\"", ":", "\"", "https://johndoe.example", "\"", "}">>

headers == << <<"id">>, <<"personalName">>, <<"context">>, <<"otherNames">>,
              <<"pronouns">>, <<"title">>, <<"avatarUrl">>, <<"socialLinks">>,
              <<"isPrimary">>, <<"createdAt">>, <<"updatedAt">> >>

\* a row without its title column
csvRowShort(identity) ==
    << escapeCsv(orEmpty(identity.id)),
       escapeCsv(orEmpty(identity.personalName)),
       escapeCsv(orEmpty(identity.context)),
       escapeCsv(join(identity.otherNames, <<"; ">>)),
       escapeCsv(orEmpty(identity.pronouns)),
       escapeCsv(orEmpty(identity.avatarUrl)),
       escapeCsv(IF identity.socialLinks = "null" THEN <<>>
                 ELSE stringifyLinks(identity.socialLinks)),
       IF identity.isPrimary = "true" THEN <<"true">> ELSE <<"false">>,
       escapeCsv(orEmpty(property(identity, "createdAt"))),
       escapeCsv(orEmpty(property(identity, "updatedAt"))) >>

\* const row = [ ... ]
csvRow(identity) ==
    << escapeCsv(orEmpty(identity.id)),
       escapeCsv(orEmpty(identity.personalName)),
       escapeCsv(orEmpty(identity.context)),
       escapeCsv(join(identity.otherNames, <<"; ">>)),
       escapeCsv(orEmpty(identity.pronouns)),
       escapeCsv(orEmpty(identity.title)),
       escapeCsv(orEmpty(identity.avatarUrl)),
       escapeCsv(IF identity.socialLinks = "null" THEN <<>>
                 ELSE stringifyLinks(identity.socialLinks)),
       IF identity.isPrimary = "true" THEN <<"true">> ELSE <<"false">>,
       escapeCsv(orEmpty(property(identity, "createdAt"))),
       escapeCsv(orEmpty(property(identity, "updatedAt"))) >>

\* csvRows.join('\n') of the header line and one line per identity
csvDocument(list) ==
    IF list = <<>>
    THEN <<"error", "\n", "\"", "No identities found", "\"">>
    ELSE join(<<join(headers, <<",">>)>>
                  \o [k \in 1..Len(list) |-> join(csvRow(list[k]), <<",">>)],
              <<"\n">>)

\* data.message || 'No data available'
messageOf(data) ==
    IF "message" \in DOMAIN data /\ data.message # <<>> /\ data.message # Null
    THEN data.message ELSE <<"No data available">>

formatAsCsv(data) ==
    IF "identities" \in DOMAIN data THEN csvDocument(data.identities)
    ELSE IF "id" \in DOMAIN data /\ orEmpty(data.id) # <<>> THEN csvDocument(<<data>>)
    ELSE <<"error", "\n", "\"">> \o escapeCsv(messageOf(data)) \o <<"\"">>

\* ------------------------------------------------------------------ calls of the formatting functions
\* the identities the formatters are called with
WireIdentity(id, name, title, links, prim) ==
    [id |-> id, userId |-> <<"u1">>, personalName |-> name, context |-> <<"work">>,
     otherNames |-> << <<"John">>, <<"Johnny">> >>, pronouns |-> Null,
     title |-> title, avatarUrl |-> Null, socialLinks |-> links, isPrimary |-> prim,
     createdAt |-> <<"Sun Nov 01 2026 10:00:00 GMT+0000 (Coordinated Universal Time)">>,
     updatedAt |-> Null]

Titles == {Null, <<"Engineer", ",", "=", "\"", "Lead", "\"">>}
Links == {"null", "none", "one", "two"}

SingleIdentities ==
    {WireIdentity(<<"id-1">>, name, title, links, prim) :
        name \in TextsUpTo(MaxText - 1), title \in Titles, links \in Links,
        prim \in PrimaryValues}

IdentityLists ==
    {<<>>}
    \cup {<< WireIdentity(<<"id-1">>, a, Null, "one", "true"),
             WireIdentity(<<"id-2">>, b, Null, "null", "false") >> :
            a \in TextsUpTo(MaxText - 2), b \in TextsUpTo(MaxText - 2)}

ErrorData == {[message |-> m] : m \in Texts \cup {<<"Unauthorized">>, <<"Identity not found">>}}

ListData == {[identities |-> l] : l \in IdentityLists}

NoCall == [fn |-> "none", arg |-> <<>>, done |-> FALSE, result |-> <<>>]

\* a call of fn with an argument of args, not yet returned
Called(fn, args, pending) ==
    \E a \in args : call = [fn |-> fn, arg |-> a, done |-> FALSE, result |-> pending]

Returned(fn) == call.fn = fn /\ call.done

NegotiateContent ==
    /\ call.fn = "negotiateContent" /\ ~call.done
    /\ call' = [call EXCEPT !.done = TRUE, !.result = negotiateContent(call.arg)]
    /\ UNCHANGED <<coreVars, wire>>

EscapeCsv ==
    /\ call.fn = "escapeCsv" /\ ~call.done
    /\ call' = [call EXCEPT !.done = TRUE, !.result = escapeCsv(call.arg)]
    /\ UNCHANGED <<coreVars, wire>>

FormatAsCsv ==
    /\ call.fn = "formatAsCsv" /\ ~call.done
    /\ call' = [call EXCEPT !.done = TRUE, !.result = formatAsCsv(call.arg)]
    /\ UNCHANGED <<coreVars, wire>>

\* ------------------------------------------------------------------ JSON
\* the characters JSON.stringify escapes inside a string
RECURSIVE jsonEscape(_)
jsonEscape(value) ==
    IF value = <<>> THEN <<>>
    ELSE (CASE Head(value) = "\"" -> <<"\\", "\"">>
            [] Head(value) = "\n" -> <<"\\", "n">>
            [] Head(value) = "\r" -> <<"\\", "r">>
            [] OTHER -> <<Head(value)>>)
         \o jsonEscape(Tail(value))

jsonString(value) == <<"\"">> \o jsonEscape(value) \o <<"\"">>

jsonNullable(value) == IF value = Null THEN <<"null">> ELSE jsonString(value)

jsonMember(key, text) == <<"\"", key, "\"", ":">> \o text

jsonObject(members) == <<"{">> \o join(members, <<",">>) \o <<"}">>

jsonArray(elements) == <<"[">> \o join(elements, <<",">>) \o <<"]">>

\* Date.prototype.toString of a timestamp, as CSV and XML print it
DateString(t) ==
    <<"Sun Nov 01 2026 10:00:0", ToString(t), " GMT+0000 (Coordinated Universal Time)">>

\* Date.prototype.toJSON of the same timestamp, as JSON.stringify prints it
toISOString(date) ==
    IF date = Null THEN Null
    ELSE IF Len(date) = 3 THEN <<"2026-11-01T10:00:0", date[2], ".000Z">>
    ELSE <<"2026-11-01T10:00:00.000Z">>

\* JSON.stringify leaves out a member whose value is undefined
jsonDefined(object, key, text) ==
    IF key \in DOMAIN object THEN << jsonMember(key, text) >> ELSE <<>>

jsonLinks(links) == IF links = "null" THEN <<"null">> ELSE stringifyLinks(links)

\* the members formatAsJsonApi copies into attributes
jsonAttributes(identity) ==
    << jsonMember("personalName", jsonNullable(identity.personalName)),
       jsonMember("context", jsonNullable(identity.context)),
       jsonMember("otherNames",
                  jsonArray([k \in 1..Len(identity.otherNames) |->
                                jsonString(identity.otherNames[k])])),
       jsonMember("pronouns", jsonNullable(identity.pronouns)),
       jsonMember("title", jsonNullable(identity.title)),
       jsonMember("avatarUrl", jsonNullable(identity.avatarUrl)),
       jsonMember("socialLinks", jsonLinks(identity.socialLinks)),
       jsonMember("isPrimary", <<identity.isPrimary>>) >>
    \o jsonDefined(identity, "createdAt", jsonNullable(toISOString(property(identity, "createdAt"))))
    \o jsonDefined(identity, "updatedAt", jsonNullable(toISOString(property(identity, "updatedAt"))))

\* JSON.stringify of a row of the identities table
jsonIdentity(identity) ==
    jsonObject(<< jsonMember("id", jsonNullable(identity.id)) >>
               \o jsonDefined(identity, "userId", jsonNullable(property(identity, "userId")))
               \o jsonAttributes(identity))

jsonIdentities(list) == jsonArray([k \in 1..Len(list) |-> jsonIdentity(list[k])])

\* JSON.stringify(data) for the three shapes the routes send
stringify(data) ==
    IF "identities" \in DOMAIN data
    THEN jsonObject((IF "primary" \in DOMAIN data
                     THEN << jsonMember("primary", jsonIdentity(data.primary)) >>
                     ELSE <<>>)
                    \o << jsonMember("identities", jsonIdentities(data.identities)) >>
                    \o jsonDefined(data, "hasMore",
                                   <<IF property(data, "hasMore") = "true" THEN "true" ELSE "false">>))
    ELSE IF "id" \in DOMAIN data THEN jsonIdentity(data)
    ELSE jsonObject(<< jsonMember("message", jsonNullable(data.message)) >>)

\* ------------------------------------------------------------------ JSON:API
\* `${req.protocol}://${req.get('host')}`
baseUrl == "http://localhost:5000"

resource(identity) ==
    jsonObject(<< jsonMember("type", jsonString(<<"identity">>)),
                  jsonMember("id", jsonNullable(identity.id)),
                  jsonMember("attributes", jsonObject(jsonAttributes(identity))),
                  jsonMember("links",
                      jsonObject(<< jsonMember("self",
                          jsonString(<<baseUrl, "/api/identities/">> \o identity.id)) >>)) >>)

\* JSON.stringify(formatAsJsonApi(data, req)) for a request of originalUrl
formatAsJsonApi(data, originalUrl) ==
    IF "identities" \in DOMAIN data
    THEN jsonObject(<<
            jsonMember("data", jsonArray([k \in 1..Len(data.identities) |->
                                             resource(data.identities[k])])),
            jsonMember("meta", jsonObject(<<
                jsonMember("total", <<ToString(Len(data.identities))>>),
                jsonMember("primary", IF "primary" \in DOMAIN data
                                      THEN jsonNullable(data.primary.id)
                                      ELSE <<"null">>) >>)),
            jsonMember("links", jsonObject(<<
                jsonMember("self", jsonString(<<baseUrl>> \o originalUrl)) >>)) >>)
    ELSE IF "id" \in DOMAIN data /\ orEmpty(data.id) # <<>>
    THEN jsonObject(<< jsonMember("data", resource(data)) >>)
    ELSE jsonObject(<< jsonMember("data", stringify(data)) >>)

\* ------------------------------------------------------------------ XML
RECURSIVE escapeXml(_)
escapeXml(text) ==
    IF text = <<>> THEN <<>>
    ELSE (CASE Head(text) = "&" -> <<"&amp;">>
            [] Head(text) = "<" -> <<"&lt;">>
            [] Head(text) = ">" -> <<"&gt;">>
            [] Head(text) = "\"" -> <<"&quot;">>
            [] Head(text) = "'" -> <<"&#39;">>
            [] OTHER -> <<Head(text)>>)
         \o escapeXml(Tail(text))

\* the positions where ]]> starts
CdataEnds(text) ==
    {k \in 1..(Len(text) - 2) : text[k] = "]" /\ text[k + 1] = "]" /\ text[k + 2] = ">"}

\* text.split(']]>'): the separators are taken leftmost first and do not overlap
RECURSIVE splitCdataEnd(_)
splitCdataEnd(text) ==
    IF CdataEnds(text) = {} THEN <<text>>
    ELSE LET k == CHOOSE i \in CdataEnds(text) : \A j \in CdataEnds(text) : i <= j
         IN  <<SubSeq(text, 1, k - 1)>> \o splitCdataEnd(SubSeq(text, k + 3, Len(text)))

cdata(part) == <<"<![CDATA[">> \o part \o <<"]", "]", ">">>

\* one section around the whole text
safeCdataWhole(text) == cdata(text)

safeCdata(text) ==
    IF CdataEnds(text) # {}
    THEN LET parts == splitCdataEnd(text)
         IN  join([k \in 1..Len(parts) |-> cdata(parts[k])], <<"]", "]", "&gt;">>)
    ELSE cdata(text)

element(indent, name, text) ==
    <<indent, "<" , name, ">">> \o text \o <<"</", name, ">">>

\* Object.entries(identity.socialLinks)
linkEntries(links) ==
    CASE links = "one" -> << <<"github", "https://github.com/johndoe">> >>
      [] links = "two" -> << <<"github", "https://github.com/johndoe">>,
                             <<"web", "https://johndoe.example">> >>
      [] OTHER -> <<>>

\* the lines formatAsXml pushes for one identity
xmlIdentity(identity) ==
    << <<"  ", "<", "identity", ">">>,
       element("    ", "id", safeCdata(orEmpty(identity.id))),
       element("    ", "personalName", safeCdata(orEmpty(identity.personalName))),
       element("    ", "context", safeCdata(orEmpty(identity.context))) >>
    \o (IF Len(identity.otherNames) > 0
        THEN << <<"    ", "<", "otherNames", ">">> >>
             \o [k \in 1..Len(identity.otherNames) |->
                    element("      ", "name", safeCdata(identity.otherNames[k]))]
             \o << <<"    ", "</", "otherNames", ">">> >>
        ELSE <<>>)
    \o (IF orEmpty(identity.pronouns) # <<>>
        THEN << element("    ", "pronouns", safeCdata(identity.pronouns)) >> ELSE <<>>)
    \o (IF orEmpty(identity.title) # <<>>
        THEN << element("    ", "title", safeCdata(identity.title)) >> ELSE <<>>)
    \o (IF orEmpty(identity.avatarUrl) # <<>>
        THEN << element("    ", "avatarUrl", safeCdata(identity.avatarUrl)) >> ELSE <<>>)
    \o (IF Len(linkEntries(identity.socialLinks)) > 0
        THEN << <<"    ", "<", "socialLinks", ">">> >>
             \o [k \in 1..Len(linkEntries(identity.socialLinks)) |->
                    <<"      ", "<", "link", " ", "platform", "=", "\"">>
                    \o escapeXml(<<linkEntries(identity.socialLinks)[k][1]>>)
                    \o <<"\"", ">">>
                    \o safeCdata(<<linkEntries(identity.socialLinks)[k][2]>>)
                    \o <<"</", "link", ">">>]
             \o << <<"    ", "</", "socialLinks", ">">> >>
        ELSE <<>>)
    \o << element("    ", "isPrimary",
                  IF identity.isPrimary = "true" THEN <<"true">> ELSE <<"false">>),
          element("    ", "createdAt", safeCdata(orEmpty(property(identity, "createdAt")))),
          element("    ", "updatedAt", safeCdata(orEmpty(property(identity, "updatedAt")))),
          <<"  ", "</", "identity", ">">> >>

RECURSIVE flatten(_)
flatten(lists) == IF lists = <<>> THEN <<>> ELSE Head(lists) \o flatten(Tail(lists))

xmlDeclaration == <<"<?xml version=\"1.0\" encoding=\"UTF-8\"?>">>

xmlDocument(list) ==
    join(<< xmlDeclaration, <<"<", "identities", ">">> >>
         \o flatten([k \in 1..Len(list) |-> xmlIdentity(list[k])])
         \o << <<"</", "identities", ">">> >>,
         <<"\n">>)

formatAsXml(data) ==
    IF "identities" \in DOMAIN data THEN xmlDocument(data.identities)
    ELSE IF "id" \in DOMAIN data /\ orEmpty(data.id) # <<>> THEN xmlDocument(<<data>>)
    ELSE xmlDeclaration
         \o <<"<", "response", ">", "<", "error", ">", "<", "message", ">">>
         \o safeCdata(messageOf(data))
         \o <<"</", "message", ">", "</", "error", ">", "</", "response", ">">>

\* ------------------------------------------------------------------ calls of the XML functions
\* the characters of the CDATA terminator, a tag opener and an ordinary one
XmlChars == {"]", ">", "<", "a"}

XmlTexts == UNION {[1..k -> XmlChars] : k \in 0..MaxXmlText}

XmlMessages == {[message |-> m] : m \in XmlTexts}

XmlIdentities ==
    {WireIdentity(<<"id-1">>, name, Null, "two", "true") : name \in XmlTexts}

XmlLists ==
    {[identities |-> << WireIdentity(<<"id-1">>, a, a, "one", "true"),
                        WireIdentity(<<"id-2">>, <<"Jane">>, Null, "null", "false") >>] :
        a \in TextsUpTo(2) \cup {<<"]", "]", ">">>, <<"]", "]", "]", ">", "]", "]", ">">>}}

SafeCdata ==
    /\ call.fn = "safeCdata" /\ ~call.done
    /\ call' = [call EXCEPT !.done = TRUE, !.result = safeCdata(call.arg)]
    /\ UNCHANGED <<coreVars, wire>>

FormatAsXml ==
    /\ call.fn = "formatAsXml" /\ ~call.done
    /\ call' = [call EXCEPT !.done = TRUE, !.result = formatAsXml(call.arg)]
    /\ UNCHANGED <<coreVars, wire>>

\* ------------------------------------------------------------------ responses
formatResponse(data, format, originalUrl) ==
    CASE format = "json-api" ->
            [content |-> formatAsJsonApi(data, originalUrl),
             contentType |-> "application/vnd.api+json"]
      [] format = "csv" ->
            [content |-> formatAsCsv(data), contentType |-> "text/csv; charset=utf-8"]
      [] format = "xml" ->
            [content |-> formatAsXml(data), contentType |-> "application/xml; charset=utf-8"]
      [] OTHER ->
            [content |-> stringify(data), contentType |-> "application/json"]

\* ------------------------------------------------------------------ read requests on the wire
MaxWireAccept == 1   \* media ranges of the Accept header of a read request

WireAccepts == {h \in AcceptHeaders : Len(h) <= MaxWireAccept}

\* the Accept headers of the public reads: none, or one of the four media types
PublicAccepts ==
    {<<>>} \cup {<<m>> : m \in {"application/json", "application/vnd.api+json",
                                "text/csv", "application/xml"}}

\* req.user as passport restores it: nobody, a username/password login (no
\* claims), or an OIDC login with claims, expires_at and maybe a refresh token
NoSession == [authenticated |-> FALSE, authProvider |-> "none", sub |-> Absent,
              expires_at |-> Absent, refresh_token |-> FALSE]

LocalSessions ==
    {[authenticated |-> TRUE, authProvider |-> "local", sub |-> Absent,
      expires_at |-> Absent, refresh_token |-> FALSE]}

ReplitSessions ==
    {[authenticated |-> TRUE, authProvider |-> "replit", sub |-> u,
      expires_at |-> e, refresh_token |-> t] :
        u \in Users, e \in {Absent, "past", "future"}, t \in BOOLEAN}

Sessions == {NoSession} \cup LocalSessions \cup ReplitSessions

NoWire == [stage |-> "idle", endpoint |-> "none", accept |-> <<>>, session |-> NoSession,
           context |-> Absent, id |-> 0, status |-> 0, contentType |-> "", content |-> <<>>]

Unauthorized == [message |-> <<"Unauthorized">>]

\* req.originalUrl
originalUrl(w) ==
    IF w.endpoint = "list"
    THEN IF w.context = Absent THEN <<"/api/identities">>
         ELSE <<"/api/identities", "?", "context", "=", w.context>>
    ELSE <<"/api/identities/", "id-", ToString(w.id)>>

\* a stored row with the columns the store model leaves out
Stored(rec) ==
    [id |-> <<"id-", ToString(rec.id)>>,
     userId |-> <<rec.userId>>,
     personalName |-> IF rec.id = 1 THEN <<"John Doe">> ELSE <<"=", "Doe", ",", "J">>,
     context |-> <<rec.context>>,
     otherNames |-> IF rec.id = 1 THEN << <<"John">>, <<"Johnny">> >> ELSE <<>>,
     pronouns |-> Null,
     title |-> IF rec.id = 1 THEN Null ELSE <<"Engineer">>,
     avatarUrl |-> Null,
     socialLinks |-> IF rec.id = 1 THEN "one" ELSE "none",
     isPrimary |-> rec.isPrimary,
     createdAt |-> DateString(rec.createdAt),
     updatedAt |-> DateString(rec.createdAt)]

\* res.status(statusCode).json(data)
sendJson(statusCode, data) ==
    wire' = [wire EXCEPT !.stage = "sent", !.status = statusCode,
                         !.contentType = "application/json",
                         !.content = stringify(data)]

sendFormattedResponse(statusCode, data) ==
    LET r == formatResponse(data, negotiateContent(wire.accept), originalUrl(wire))
    IN  wire' = [wire EXCEPT !.stage = "sent", !.status = statusCode,
                             !.contentType = r.contentType, !.content = r.content]

\* a GET /api/identities or GET /api/identities/:id arrives
Receive ==
    /\ wire.stage = "idle"
    /\ \E endpoint \in {"list", "get"}, accept \in WireAccepts, session \in Sessions,
          context \in Contexts \cup {Absent}, id \in ReqIds :
          /\ endpoint = "list" => id = 1
          /\ endpoint = "get" => context = Absent
          /\ wire' = [NoWire EXCEPT !.stage = "gate", !.endpoint = endpoint,
                                    !.accept = accept, !.session = session,
                                    !.context = context,
                                    !.id = IF endpoint = "list" THEN 0 ELSE id]
    /\ UNCHANGED <<coreVars, call>>

\* isAuthenticated
IsAuthenticated ==
    /\ wire.stage = "gate"
    /\ LET user == wire.session
           next == wire' = [wire EXCEPT !.stage = "route"]
           refreshed == wire' = [wire EXCEPT !.stage = "route",
                                             !.session.expires_at = "future"]
       IN  IF ~user.authenticated THEN sendJson(401, Unauthorized)
           ELSE IF user.authProvider = "local" THEN next
           ELSE IF user.expires_at = Absent THEN sendJson(401, Unauthorized)
           ELSE IF user.expires_at = "future" THEN next
           ELSE IF ~user.refresh_token THEN sendJson(401, Unauthorized)
           ELSE refreshed \/ sendJson(401, Unauthorized)
    /\ UNCHANGED <<coreVars, call>>

\* identities.find(i => i.isPrimary)
find(list) ==
    IF \E k \in 1..Len(list) : Truthy(list[k].isPrimary)
    THEN <<list[CHOOSE k \in 1..Len(list) :
                  /\ Truthy(list[k].isPrimary)
                  /\ \A j \in 1..(k - 1) : ~Truthy(list[j].isPrimary)]>>
    ELSE <<>>

\* app.get('/api/identities')
ListRoute ==
    /\ wire.stage = "route" /\ wire.endpoint = "list"
    /\ IF wire.session.sub = Absent
       THEN sendFormattedResponse(401, Unauthorized)
       ELSE \/ \E rows \in getIdentities(identities, wire.session.sub, wire.context) :
                 LET list == [k \in 1..Len(rows) |-> Stored(rows[k])]
                 IN  sendFormattedResponse(200,
                        IF wire.context # Absent \/ find(list) = <<>>
                        THEN [identities |-> list]
                        ELSE [primary |-> find(list)[1], identities |-> list])
            \/ sendFormattedResponse(500, [message |-> <<"Failed to fetch identities">>])
    /\ UNCHANGED <<coreVars, call>>

\* app.get('/api/identities/:id')
GetRoute ==
    /\ wire.stage = "route" /\ wire.endpoint = "get"
    /\ IF wire.session.sub = Absent
       THEN sendFormattedResponse(401, Unauthorized)
       ELSE \/ LET found == getIdentity(identities, wire.id, wire.session.sub)
               IN  IF found = <<>>
                   THEN sendFormattedResponse(404, [message |-> <<"Identity not found">>])
                   ELSE sendFormattedResponse(200, Stored(found[1]))
            \/ sendFormattedResponse(500, [message |-> <<"Failed to fetch identity">>])
    /\ UNCHANGED <<coreVars, call>>

\* the response is on its way and the connection takes the next request
EndResponse ==
    /\ wire.stage = "sent"
    /\ wire' = NoWire
    /\ UNCHANGED <<coreVars, call>>


\* ------------------------------------------------------------------ specifications
AtMostOnePrimary(tbl) == \A u \in Users : Cardinality(PrimariesOf(tbl, u)) <= 1

Rows == {Row(u, prim, ctx, t) : u \in Users, prim \in PrimaryValues,
                                 ctx \in Contexts, t \in 0..MaxClock}

\* the stores a run may start from: up to InitRows rows, ids in creation order,
\* at most one primary per owner, no audit entries yet.  Users and contexts
\* are interchangeable, so the oldest row is u1's, in context work, at time 0.
InitStores ==
    UNION {{tbl \in [1..k -> Rows] :
              /\ AtMostOnePrimary(tbl)
              /\ k >= 1 => tbl[1] \in {Row("u1", prim, "work", 0) : prim \in PrimaryValues}
              /\ \A i, j \in 1..k : i < j => tbl[i].createdAt <= tbl[j].createdAt} :
           k \in 0..InitRows}

LatestCreatedAt(tbl) ==
    IF DOMAIN tbl = {} THEN 0
    ELSE CHOOSE t \in 0..MaxClock :
            /\ \E i \in DOMAIN tbl : tbl[i].createdAt = t
            /\ \A i \in DOMAIN tbl : tbl[i].createdAt <= t

\* the slots are free and the store is tbl
CoreAt(tbl) ==
    /\ identities = tbl
    /\ auditLogs = <<>>
    /\ nextId = Cardinality(DOMAIN tbl) + 1
    /\ now = LatestCreatedAt(tbl)
    /\ ops = 0
    /\ pc = [p \in Procs |-> "idle"]
    /\ req = [p \in Procs |-> NoReq]
    /\ existing = [p \in Procs |-> <<>>]
    /\ txRows = [p \in Procs |-> EmptyRows]
    /\ txDeleted = [p \in Procs |-> {}]
    /\ resp = [p \in Procs |-> NoResp]
    /\ snap = [p \in Procs |-> NoSnap]

Init ==
    /\ \E tbl \in InitStores : CoreAt(tbl)
    /\ call = NoCall
    /\ wire = NoWire

Mutate(p, serial) ==
    \/ CreateBegin(p, serial) \/ CreateUnset(p) \/ CreateInsert(p) \/ CreateAudit(p)
    \/ UpdateBegin(p, serial) \/ UpdateUnset(p) \/ UpdateSet(p) \/ UpdateAudit(p)
    \/ DeleteBegin(p, serial) \/ DeleteSelect(p) \/ DeleteRow(p) \/ DeleteAudit(p)
    \/ SetPrimaryBegin(p, serial) \/ SetPrimaryUnset(p) \/ SetPrimarySet(p)
    \/ SetPrimaryAudit(p)
    \/ Fault(p) \/ Reply(p)

Read(p) == ListIdentities(p) \/ GetIdentity(p) \/ GetPrimary(p)

\* mutating requests run one after another; reads come at any time
Next == \E p \in Procs : Mutate(p, TRUE) \/ Read(p)
Spec == Init /\ [][Next]_vars

\* mutating requests interleave statement by statement
NextConc == \E p \in Procs : Mutate(p, FALSE)
SpecConc == Init /\ [][NextConc]_vars

\* the formatting functions, each called once with an argument of its domain
InitText ==
    /\ CoreAt(EmptyRows)
    /\ \/ Called("negotiateContent", AcceptHeaders, "")
       \/ Called("escapeCsv", Texts, <<>>)
       \/ Called("formatAsCsv", SingleIdentities, <<>>)
       \/ Called("formatAsCsv", ListData, <<>>)
       \/ Called("formatAsCsv", ErrorData, <<>>)
       \/ Called("safeCdata", XmlTexts, <<>>)
       \/ Called("formatAsXml", XmlMessages, <<>>)
       \/ Called("formatAsXml", XmlIdentities, <<>>)
       \/ Called("formatAsXml", XmlLists, <<>>)
    /\ wire = NoWire

NextText == NegotiateContent \/ EscapeCsv \/ FormatAsCsv \/ SafeCdata \/ FormatAsXml
SpecText == InitText /\ [][NextText]_vars

\* read requests, one at a time, on a store that does not change
InitWire ==
    /\ \E tbl \in InitStores : CoreAt(tbl)
    /\ call = NoCall
    /\ wire = NoWire

NextWire == Receive \/ IsAuthenticated \/ ListRoute \/ GetRoute \/ EndResponse
SpecWire == InitWire /\ [][NextWire]_vars

\* ------------------------------------------------------------------ public search
\* the bound of query.limit
MinLimit == 1
MaxLimit == 50

\* the characters of the names and titles in the store, and their lower case
toLowerCase(text) ==
    [k \in 1..Len(text) |-> CASE text[k] = "E" -> "e"
                              [] text[k] = "B" -> "b"
                              [] OTHER -> text[k]]

\* q occurs in text as a substring
occursIn(q, text) ==
    \E k \in 0..(Len(text) - Len(q)) : SubSeq(text, k + 1, k + Len(q)) = q

\* a row of the store with the columns the search reads; each person owns
\* the rows that carry their names
PublicRow(person, ctx, disc) ==
    [userId |-> person, isPrimary |-> "false", context |-> ctx, createdAt |-> 0,
     isDiscoverable |-> disc,
     personalName |-> IF person = "u1" THEN <<"E", "b">> ELSE <<"b">>,
     otherNames |-> IF person = "u1" THEN <<>> ELSE << <<"E">> >>,
     title |-> IF person = "u1" THEN Null ELSE <<"B", "e">>]

PublicRows == {PublicRow(u, ctx, disc) : u \in Users, ctx \in Contexts, disc \in BOOLEAN}

PublicStores == UNION {[1..n -> PublicRows] : n \in 0..MaxPublicRows}

\* the queries: q is Null when the request has none, limit is <<>> when it has none
Queries ==
    {[requester |-> u, context |-> ctx, q |-> q, limit |-> limit, accept |-> accept] :
        u \in Users, ctx \in {"work", "invalid-context", Absent},
        q \in {Null, <<"E">>, <<"e", "b">>},
        limit \in {<<>>, <<MinLimit - 1>>, <<MinLimit>>, <<MinLimit + 1>>, <<MaxLimit + 1>>},
        accept \in PublicAccepts}

validQuery(query) ==
    /\ query.context # Absent
    /\ ContextInEnumeration(query.context)
    /\ query.limit # <<>> => query.limit[1] \in MinLimit..MaxLimit

\* without a limit the search returns as many as the bound allows
limitOf(query) == IF query.limit = <<>> THEN MaxLimit ELSE query.limit[1]

matches(row, q) ==
    \/ q = Null
    \/ occursIn(toLowerCase(q), toLowerCase(row.personalName))
    \/ \E k \in 1..Len(row.otherNames) : occursIn(toLowerCase(q), toLowerCase(row.otherNames[k]))
    \/ row.title # Null /\ occursIn(toLowerCase(q), toLowerCase(row.title))

\* the eligibility test with the discoverability condition left out
eligibleAny(tbl, query) ==
    {i \in DOMAIN tbl : tbl[i].context = query.context /\ matches(tbl[i], query.q)}

eligible(tbl, query) ==
    {i \in DOMAIN tbl :
        tbl[i].isDiscoverable /\ tbl[i].context = query.context /\ matches(tbl[i], query.q)}

\* the projection with the owner added
PublicIdentityOwned(tbl, i) ==
    [id |-> <<"id-", ToString(i)>>, userId |-> <<tbl[i].userId>>,
     personalName |-> tbl[i].personalName, context |-> <<tbl[i].context>>,
     otherNames |-> tbl[i].otherNames, pronouns |-> Null, title |-> tbl[i].title,
     avatarUrl |-> Null, socialLinks |-> "none", isPrimary |-> tbl[i].isPrimary]

\* the whitelisted projection of row i
PublicIdentity(tbl, i) ==
    [id |-> <<"id-", ToString(i)>>,
     personalName |-> tbl[i].personalName, context |-> <<tbl[i].context>>,
     otherNames |-> tbl[i].otherNames, pronouns |-> Null, title |-> tbl[i].title,
     avatarUrl |-> Null, socialLinks |-> "none", isPrimary |-> tbl[i].isPrimary]

\* the orders in which n of the rows ids may be returned
Selections(ids, n) ==
    {s \in [1..n -> ids] : \A j, k \in 1..n : j # k => s[j] # s[k]}

hasMoreAlways(count, limit) == "true"

hasMore(count, limit) == IF count > limit THEN "true" ELSE "false"

pageSize(count, limit) == IF count > limit THEN limit ELSE count

\* what search may return for a valid query: the order is not specified
search(tbl, query) ==
    LET ids == eligible(tbl, query)
        count == Cardinality(ids)
    IN  {[identities |-> [k \in 1..pageSize(count, limitOf(query)) |-> PublicIdentity(tbl, s[k])],
          hasMore |-> hasMore(count, limitOf(query))] :
            s \in Selections(ids, pageSize(count, limitOf(query)))}

NotFound == [message |-> <<"Identity not found">>]

getPublicIdentity(tbl, id) ==
    IF id \in DOMAIN tbl /\ tbl[id].isDiscoverable THEN PublicIdentity(tbl, id) ELSE NotFound

\* the audit entry of a read across owners, with the target as its user
CrossUserAccessAsTarget(requestingUserId, targetUserId, context, count) ==
    [userId |-> targetUserId, entity |-> "identity", entityId |-> targetUserId,
     operation |-> "cross-user-access",
     diff |-> [context |-> context, targetUserId |-> targetUserId, accessedCount |-> count]]

\* createAuditLog({userId: requestingUserId, ..., operation: 'cross-user-access', diff})
CrossUserAccess(requestingUserId, targetUserId, context, count) ==
    [userId |-> requestingUserId, entity |-> "identity", entityId |-> targetUserId,
     operation |-> "cross-user-access",
     diff |-> [context |-> context, targetUserId |-> targetUserId, accessedCount |-> count]]

\* req.originalUrl of the public routes
publicUrl(arg) ==
    IF "id" \in DOMAIN arg THEN <<"/api/public/identities/", "id-", ToString(arg.id)>>
    ELSE <<"/api/public/identities/search", "?", "context", "=", arg.context>>

NoAnswer == [status |-> 0, data |-> <<>>, contentType |-> "", content |-> <<>>]

\* sendFormattedResponse(res, data, req) of a public route
answer(statusCode, data, arg) ==
    LET r == formatResponse(data, negotiateContent(arg.accept), publicUrl(arg))
    IN  [status |-> statusCode, data |-> data, contentType |-> r.contentType,
         content |-> r.content]

\* the response of GET /api/public/identities/:id
answerPublicIdentity(tbl, arg) ==
    LET found == getPublicIdentity(tbl, arg.id)
    IN  answer(IF found = NotFound THEN 404 ELSE 200, found, arg)

\* GET /api/public/identities/search
Search ==
    /\ call.fn = "search" /\ ~call.done
    /\ IF ~validQuery(call.arg)
       THEN /\ call' = [call EXCEPT !.done = TRUE,
                           !.result = answer(400, [message |-> <<"Validation error">>], call.arg)]
            /\ UNCHANGED auditLogs
       ELSE \E found \in search(identities, call.arg) :
                /\ auditLogs' = Append(auditLogs,
                                       CrossUserAccess(call.arg.requester, Absent,
                                                       call.arg.context, Len(found.identities)))
                /\ call' = [call EXCEPT !.done = TRUE, !.result = answer(200, found, call.arg)]
    /\ UNCHANGED <<identities, nextId, now, ops, pc, req, existing, txRows, txDeleted,
                   resp, snap, wire>>

\* GET /api/public/identities/:id
GetPublicIdentity ==
    /\ call.fn = "getPublicIdentity" /\ ~call.done
    /\ call' = [call EXCEPT !.done = TRUE, !.result = answerPublicIdentity(identities, call.arg)]
    /\ UNCHANGED <<coreVars, wire>>

\* storage.getIdentitiesByUserAndContext(targetUserId, context, requestingUserId):
\* the ordered select of the target's rows, then the audit entry
GetIdentitiesByUserAndContext ==
    /\ call.fn = "getIdentitiesByUserAndContext" /\ ~call.done
    /\ \E results \in getIdentities(identities, call.arg.targetUserId, call.arg.context) :
          /\ auditLogs' = Append(auditLogs,
                                 CrossUserAccess(call.arg.requestingUserId,
                                                 call.arg.targetUserId, call.arg.context,
                                                 Len(results)))
          /\ call' = [call EXCEPT !.done = TRUE,
                         !.result = [status |-> 0, data |-> results, contentType |-> "",
                                     content |-> <<>>]]
    /\ UNCHANGED <<identities, nextId, now, ops, pc, req, existing, txRows, txDeleted,
                   resp, snap, wire>>

PublicReads ==
    {[requester |-> u, id |-> id, accept |-> accept] :
        u \in Users, id \in 1..(MaxPublicRows + 1), accept \in PublicAccepts}

CrossReads ==
    {[requestingUserId |-> u, targetUserId |-> t, context |-> ctx] :
        u \in Users, t \in Users, ctx \in Contexts}

\* the public reads, each called once on a store that does not change
InitSearch ==
    /\ \E tbl \in PublicStores : CoreAt(tbl)
    /\ \/ Called("search", Queries, NoAnswer)
       \/ Called("getPublicIdentity", PublicReads, NoAnswer)
       \/ Called("getIdentitiesByUserAndContext", CrossReads, NoAnswer)
    /\ wire = NoWire

NextSearch == Search \/ GetPublicIdentity \/ GetIdentitiesByUserAndContext
SpecSearch == InitSearch /\ [][NextSearch]_vars

\* ------------------------------------------------------------------ properties
Done(p) == pc[p] = "done"
Succeeded(p) == Done(p) /\ resp[p].status \in {200, 201, 204}
RequestsPrimary(r) ==
    \/ r.op = "set-primary"
    \/ r.op \in {"create", "update"} /\ Truthy(r.isPrimary)

\* C1: when the mutating requests run one after another from a store with at
\* most one primary per owner, every committed store has at most one row with
\* isPrimary = true per owner.
C1_PrimaryUniqueSerial ==
    \A u \in Users : Cardinality(PrimariesOf(identities, u)) <= 1

\* a request asking for the primary flag has just succeeded for an owner who
\* had another primary, which is primary no longer
C1_Witness ==
    \E p \in Procs :
        /\ Succeeded(p) /\ RequestsPrimary(req[p])
        /\ \E a \in PrimariesOf(snap[p].identities, req[p].userId) :
              /\ a \in DOMAIN identities
              /\ identities[a].isPrimary = "false"
              /\ PrimariesOf(identities, req[p].userId) # {}

\* C2: with the requests interleaved statement by statement on the
\* read-committed store, no committed store has two rows of one owner with
\* isPrimary = true.
C2_PrimaryUniqueConcurrent ==
    \A u \in Users : \A i, j \in PrimariesOf(identities, u) : i = j

\* C3: while a request that moves the primary flag of an owner from A to B is
\* in progress, a read of that owner's primary or of that owner's whole list
\* shows exactly one primary, A (the store before) or B (the store after),
\* never the store between the unset and the set.
PrimaryIdsSeen(q) ==
    {resp[q].items[k].id : k \in {n \in 1..Len(resp[q].items) :
                                     resp[q].items[n].isPrimary = "true"}}

ReadsPrimaryOf(q, u) ==
    /\ Done(q)
    /\ req[q].userId = u
    /\ req[q].op = "primary" \/ (req[q].op = "list" /\ req[q].context = Absent)

MovesPrimary(p) ==
    /\ InProgress(p)
    /\ RequestsPrimary(req[p])
    /\ Cardinality(PrimariesOf(snap[p].identities, req[p].userId)) = 1
    /\ req[p].id \notin PrimariesOf(snap[p].identities, req[p].userId)

PrimaryAfter(p) ==
    IF req[p].op = "create" THEN DOMAIN txRows[p] \ DOMAIN snap[p].identities
    ELSE {req[p].id}

C3_NoIntermediatePrimaryState ==
    \A p, q \in Procs :
        MovesPrimary(p) /\ ReadsPrimaryOf(q, req[p].userId) =>
            \/ PrimaryIdsSeen(q) = PrimariesOf(snap[p].identities, req[p].userId)
            \/ PrimaryIdsSeen(q) = PrimaryAfter(p) /\ PrimaryAfter(p) # {}

\* a read answered while the mover's transaction has unset A and not yet committed
C3_Witness ==
    \E p, q \in Procs :
        /\ MovesPrimary(p) /\ ReadsPrimaryOf(q, req[p].userId)
        /\ \E a \in PrimariesOf(snap[p].identities, req[p].userId) :
              a \in DOMAIN txRows[p] /\ txRows[p][a].isPrimary = "false"
        /\ PrimaryIdsSeen(q) # {}

\* C4: with the requests served one after another, DELETE of an identity the
\* caller owns answers the policy error and keeps the row when it is the
\* caller's only one; when the caller owns two or more it removes exactly that
\* row (204) and leaves all others as they were, unless a statement of the
\* transaction throws (500), which leaves every row as it was.
DeletesOwn(p) ==
    /\ Done(p)
    /\ req[p].op = "delete"
    /\ req[p].id \in OwnedBy(snap[p].identities, req[p].userId)

Without(tbl, id) == [i \in DOMAIN tbl \ {id} |-> tbl[i]]

C4_LastIdentityProtection ==
    \A p \in Procs :
        DeletesOwn(p) =>
            IF Cardinality(OwnedBy(snap[p].identities, req[p].userId)) = 1
            THEN /\ resp[p] = Resp(400, "Cannot delete your only identity", <<>>)
                 /\ identities = snap[p].identities
            ELSE \/ /\ resp[p].status = 204
                    /\ identities = Without(snap[p].identities, req[p].id)
                 \/ /\ resp[p].status = 500
                    /\ identities = snap[p].identities

\* a delete that succeeded for an owner of two or more identities
C4_Witness ==
    \E p \in Procs :
        /\ DeletesOwn(p)
        /\ Cardinality(OwnedBy(snap[p].identities, req[p].userId)) >= 2
        /\ resp[p].status = 204
        /\ OwnedBy(identities, req[p].userId) # {}

\* a delete of the only identity, refused
C4_WitnessOnly ==
    \E p \in Procs :
        /\ DeletesOwn(p)
        /\ Cardinality(OwnedBy(snap[p].identities, req[p].userId)) = 1
        /\ resp[p].status = 400

\* C5: with the requests interleaved statement by statement, an owner who
\* owns at least one identity never comes to own none through DELETE requests
\* for identities that were the owner's when the requests arrived: no step
\* takes such an owner's set of identities from non-empty to empty.
DeletingOwn(p, u) ==
    /\ InProgress(p)
    /\ req[p].op = "delete"
    /\ req[p].userId = u

C5_AtLeastOneIdentityConcurrent ==
    [][\A u \in Users :
          /\ OwnedBy(identities, u) # {}
          /\ \A p \in Procs :
                DeletingOwn(p, u) => req[p].id \in OwnedBy(snap[p].identities, u)
          => OwnedBy(identities', u) # {}]_vars

\* C6 (as stated): get, update, delete and set-primary with the id of an
\* identity of another account answer 404 "Identity not found" and leave the
\* identities and the audit log as they were.
OnTarget(p) == Done(p) /\ req[p].op \in {"get", "update", "delete", "set-primary"}

ForeignTarget(p) ==
    /\ OnTarget(p)
    /\ req[p].id \in DOMAIN snap[p].identities
    /\ snap[p].identities[req[p].id].userId # req[p].userId

NowhereTarget(p) == OnTarget(p) /\ req[p].id \notin DOMAIN snap[p].identities

StoreUntouched(p) ==
    /\ identities = snap[p].identities
    /\ auditLogs = snap[p].auditLogs

NotOwnedOutcome(op, owned) ==
    IF op = "delete" /\ owned = 1
    THEN Resp(400, "Cannot delete your only identity", <<>>)
    ELSE Resp(404, "Identity not found", <<>>)

C6_WitnessPolicy ==
    \E p \in Procs :
        /\ ForeignTarget(p)
        /\ req[p].op = "delete"
        /\ resp[p].status = 400

\* C7: after a successful create with isPrimary = true, update with
\* isPrimary = true or set-primary on identity X of owner U, X is what
\* getPrimaryIdentity(U) returns, the identity that was primary before is no
\* longer primary, and every result of getIdentities(U) has X first.
MadePrimary(p) == Succeeded(p) /\ RequestsPrimary(req[p])

TargetOf(p) == IF req[p].op = "create" THEN resp[p].items[1].id ELSE req[p].id

C7_RequestedPrimaryWins ==
    \A p \in Procs :
        MadePrimary(p) =>
            LET u == req[p].userId
                x == TargetOf(p)
            IN  /\ getPrimaryIdentity(identities, u) = {<<Rec(identities, x)>>}
                /\ \A a \in PrimariesOf(snap[p].identities, u) \ {x} :
                      a \in DOMAIN identities /\ identities[a].isPrimary = "false"
                /\ \A result \in getIdentities(identities, u, Absent) :
                      Len(result) > 0 /\ result[1].id = x

\* C8: GET /api/identities answers exactly the caller's identities (of the
\* given context when one is given), each once, the primary one first and the
\* others by creation time, newest first.
Listed(q) == Done(q) /\ req[q].op = "list"

PrimaryFirstThenNewest(items) ==
    \A i, j \in 1..Len(items) :
        i < j =>
            /\ items[j].isPrimary = "true" => items[i].isPrimary = "true"
            /\ items[i].isPrimary # "true" /\ items[j].isPrimary # "true" =>
                  items[i].createdAt >= items[j].createdAt

C8_ListResult ==
    \A q \in Procs :
        Listed(q) =>
            LET items == resp[q].items
                want == Matching(snap[q].identities, req[q].userId, req[q].context)
            IN  /\ {items[k].id : k \in 1..Len(items)} = want
                /\ Len(items) = Cardinality(want)
                /\ \A k \in 1..Len(items) :
                      items[k] = Rec(snap[q].identities, items[k].id)
                /\ PrimaryFirstThenNewest(items)

\* C9: the step that ends a create, update, delete or set-primary appends
\* exactly one audit entry (the caller, "identity", the target's id, the
\* operation) together with the mutation when it answers success, and leaves
\* the audit log as it was when it answers not-found.
Mutations == {"create", "update", "delete", "set-primary"}

C9_EndsMutation(p) ==
    /\ pc[p] # "done"
    /\ pc'[p] = "done"
    /\ req'[p].op \in Mutations

C9_OneAuditEntryPerMutation ==
    [][\A p \in Procs :
          C9_EndsMutation(p) =>
              /\ resp'[p].status \in {200, 201, 204} =>
                    auditLogs' = Append(auditLogs,
                        AuditEntry(req'[p].userId,
                                   IF req'[p].op = "create" THEN resp'[p].items[1].id
                                   ELSE req'[p].id,
                                   req'[p].op))
              /\ resp'[p].status = 404 => auditLogs' = auditLogs]_vars

\* C10: with the requests served one after another, a create, update, delete
\* or set-primary that fails (500) leaves the committed identities and the
\* audit log as they were before the request, also when the transaction had
\* already unset the old primary.
C10_FullRollback ==
    \A p \in Procs :
        Done(p) /\ resp[p].status = 500 =>
            /\ identities = snap[p].identities
            /\ auditLogs = snap[p].auditLogs

\* a request failed after its transaction had unset the old primary, which is
\* still primary in the committed store
C10_Witness ==
    \E p \in Procs :
        /\ Done(p) /\ resp[p].status = 500
        /\ \E a \in PrimariesOf(snap[p].identities, req[p].userId) :
              /\ a \in DOMAIN txRows[p]
              /\ txRows[p][a].isPrimary = "false"
              /\ a \in PrimariesOf(identities, req[p].userId)

\* C11: the audit log is append-only: every step of every core operation
\* (list, get, create, update, delete, set-primary, get-primary) keeps the
\* entries the log had, in their order, and at most adds entries at its end.
C11_AuditLogAppendOnly ==
    [][/\ Len(auditLogs') >= Len(auditLogs)
       /\ \A k \in 1..Len(auditLogs) : auditLogs'[k] = auditLogs[k]]_vars

\* the log holds an earlier entry and the entry of a delete whose identity is
\* gone from the store
C11_Witness ==
    /\ Len(auditLogs) >= 2
    /\ \E k \in 2..Len(auditLogs) :
          /\ auditLogs[k].operation = "delete"
          /\ auditLogs[k].entityId \notin DOMAIN identities

\* C12: a create or an update whose context is not one of legal, work, social,
\* gaming is answered 400 and leaves the identities and the audit log as they
\* were, and every stored identity has a context of that list.
SendsContext(p) ==
    /\ Done(p)
    /\ req[p].op \in {"create", "update"}
    /\ req[p].context # Absent

C12_ContextEnumeration ==
    /\ \A i \in DOMAIN identities : ContextInEnumeration(identities[i].context)
    /\ \A p \in Procs :
          SendsContext(p) /\ ~ContextInEnumeration(req[p].context) =>
              /\ resp[p].status = 400
              /\ StoreUntouched(p)

\* a create without any context is answered 400 and changes nothing
C12_MissingContextRejected ==
    \A p \in Procs :
        Done(p) /\ req[p].op = "create" /\ req[p].context = Absent =>
            resp[p] = ValidationError /\ StoreUntouched(p)

\* C13: no step changes the owner of a stored identity; an identity appears
\* only through a successful create, under the id the store generated and
\* owned by the authenticated caller, whatever id or userId the body carried;
\* an identity disappears only through a successful delete of that id.
C13_OwnerAndIdFixed ==
    [][/\ \A i \in DOMAIN identities \cap DOMAIN identities' :
             identities'[i].userId = identities[i].userId
       /\ \A i \in DOMAIN identities' \ DOMAIN identities :
             \E p \in Procs :
                /\ req[p].op = "create" /\ resp'[p].status = 201
                /\ identities'[i].userId = req[p].userId
                /\ i = nextId - 1
       /\ \A i \in DOMAIN identities \ DOMAIN identities' :
             \E p \in Procs :
                req[p].op = "delete" /\ req[p].id = i /\ resp'[p].status = 204]_vars

\* a create whose body carried an id or a userId of its own has succeeded, an
\* identity of another account being in the store
C13_Witness ==
    \E p \in Procs :
        /\ Succeeded(p) /\ req[p].op = "create" /\ req[p].forged
        /\ resp[p].items[1].id \in OwnedBy(identities, req[p].userId)
        /\ \E i \in DOMAIN identities : identities[i].userId # req[p].userId

\* an update whose body carried an id or a userId of its own has succeeded
C13_WitnessUpdate ==
    \E p \in Procs :
        /\ Succeeded(p) /\ req[p].op = "update" /\ req[p].forged
        /\ req[p].id \in OwnedBy(identities, req[p].userId)

\* C14: after a successful update the target holds the patch's value in every
\* field the patch carries and its former value in every other field; the
\* other identities are as they were, except that the owner's former primary
\* is primary no longer when the patch sets isPrimary = true; the identity
\* returned is the stored one.
Updated(p) == Done(p) /\ req[p].op = "update" /\ resp[p].status = 200

FieldAfter(sent, before) == IF sent = Absent THEN before ELSE sent

C14_PartialUpdate ==
    \A p \in Procs :
        Updated(p) =>
            LET id == req[p].id
                old == snap[p].identities
            IN  /\ DOMAIN identities = DOMAIN old
                /\ identities[id].isPrimary = FieldAfter(req[p].isPrimary, old[id].isPrimary)
                /\ identities[id].context = FieldAfter(req[p].context, old[id].context)
                /\ identities[id].userId = old[id].userId
                /\ identities[id].createdAt = old[id].createdAt
                /\ \A j \in DOMAIN old \ {id} :
                      identities[j] =
                          IF /\ Truthy(req[p].isPrimary)
                             /\ j \in PrimariesOf(old, req[p].userId)
                          THEN [old[j] EXCEPT !.isPrimary = "false"]
                          ELSE old[j]
                /\ resp[p].items = <<Rec(identities, id)>>

\* an update of the context alone has changed the context of a primary
\* identity, which is still primary
C14_Witness ==
    \E p \in Procs :
        /\ Updated(p)
        /\ req[p].isPrimary = Absent /\ req[p].context # Absent
        /\ snap[p].identities[req[p].id].context # req[p].context
        /\ identities[req[p].id].context = req[p].context
        /\ identities[req[p].id].isPrimary = "true"

\* ------------------------------------------------------------------ properties of the formats
\* C15: negotiateContent returns json-api when the Accept header contains
\* application/vnd.api+json, otherwise csv when it contains text/csv, otherwise
\* xml when it contains application/xml, otherwise json (also for no header);
\* the result is one of the four formats and is the same for every order of
\* the header's media ranges.
Mentions(h, needle) == \E k \in 1..Len(h) : Contains(h[k], needle)

Permutes(g, h) ==
    /\ Len(g) = Len(h)
    /\ \A m \in MediaTypes :
          Cardinality({k \in 1..Len(g) : g[k] = m}) = Cardinality({k \in 1..Len(h) : h[k] = m})

C15_NegotiationPriority ==
    Returned("negotiateContent") =>
        LET h == call.arg
        IN  /\ call.result =
                  IF Mentions(h, "application/vnd.api+json") THEN "json-api"
                  ELSE IF Mentions(h, "text/csv") THEN "csv"
                  ELSE IF Mentions(h, "application/xml") THEN "xml"
                  ELSE "json"
            /\ call.result \in {"json-api", "csv", "xml", "json"}
            /\ \A g \in AcceptHeaders : Permutes(g, h) => negotiateContent(g) = call.result

\* a header that names xml, then csv, then json-api was negotiated to json-api
C15_Witness ==
    /\ Returned("negotiateContent")
    /\ call.arg = <<"application/xml", "text/csv", "application/vnd.api+json">>
    /\ call.result = "json-api"

\* C17: the field escapeCsv returns never begins with =, +, - or @; for a value
\* that begins with one of them the field holds a single quote right before
\* the value's first character, at the start of the field or right after the
\* opening double quote.
BeginsFormula(v) == Len(v) > 0 /\ v[1] \in FormulaChars

C17_CsvFormulaGuard ==
    Returned("escapeCsv") =>
        /\ ~BeginsFormula(call.result)
        /\ BeginsFormula(call.arg) =>
              LET k == IF call.result[1] = "\"" THEN 2 ELSE 1
              IN  /\ Len(call.result) > k
                  /\ call.result[k] = "'"
                  /\ call.result[k + 1] = call.arg[1]

\* a value that begins with = and holds a comma was escaped inside double quotes
C17_Witness ==
    /\ Returned("escapeCsv")
    /\ call.arg = <<"=", "a", ",">>
    /\ call.result = <<"\"", "'", "=", "a", ",", "\"">>

\* standard CSV reading: line feeds outside double quotes separate the
\* records, commas outside double quotes the fields of a record; a field that
\* begins with a double quote runs to its closing double quote, two double
\* quotes inside it standing for one
QuotesBefore(doc, k) == Cardinality({j \in 1..(k - 1) : doc[j] = "\""})

Outside(doc, k) == QuotesBefore(doc, k) % 2 = 0

Ordered(S) ==
    [i \in 1..Cardinality(S) |-> CHOOSE x \in S : Cardinality({y \in S : y < x}) = i - 1]

Split(doc, sep) ==
    LET cuts == Ordered({k \in 1..Len(doc) : doc[k] = sep /\ Outside(doc, k)})
        from(i) == IF i = 1 THEN 1 ELSE cuts[i - 1] + 1
        to(i) == IF i = Len(cuts) + 1 THEN Len(doc) ELSE cuts[i] - 1
    IN  [i \in 1..(Len(cuts) + 1) |-> SubSeq(doc, from(i), to(i))]

Unquote(f) ==
    IF Len(f) >= 2 /\ f[1] = "\""
    THEN LET inner == SubSeq(f, 2, Len(f) - 1)
             kept == Ordered({j \in 1..Len(inner) : inner[j] # "\"" \/ Outside(inner, j)})
         IN  [i \in 1..Len(kept) |-> inner[kept[i]]]
    ELSE f

ParseCsv(doc) ==
    LET lines == Split(doc, "\n")
    IN  [r \in 1..Len(lines) |->
            LET fields == Split(lines[r], ",")
            IN  [c \in 1..Len(fields) |-> Unquote(fields[c])]]

\* the value with the injection guard where escapeCsv adds one
Guarded(v) == IF BeginsFormula(v) THEN <<"'">> \o v ELSE v

HasSpecial(v) == \E k \in 1..Len(v) : v[k] \in {",", "\n", "\r", "\""}

\* C18: escapeCsv wraps the value in double quotes exactly when it holds a
\* comma, a line feed, a carriage return or a double quote; read back as CSV
\* the field is the value (after its guard quote when it has one), also with
\* another field after it in the record and with another record after it.
C18_CsvQuotingRoundTrip ==
    Returned("escapeCsv") =>
        LET v == call.arg
            out == call.result
        IN  /\ (Len(out) >= 2 /\ out[1] = "\"" /\ out[Len(out)] = "\"") <=> HasSpecial(v)
            /\ ParseCsv(out) = << <<Guarded(v)>> >>
            /\ ParseCsv(out \o <<",">> \o out) = << <<Guarded(v), Guarded(v)>> >>
            /\ ParseCsv(out \o <<"\n">> \o out) = << <<Guarded(v)>>, <<Guarded(v)>> >>

\* a value with a double quote, a comma and a line feed was escaped
C18_Witness ==
    /\ Returned("escapeCsv")
    /\ call.arg = <<"\"", ",", "\n">>
    /\ call.result = <<"\"", "\"", "\"", ",", "\n", "\"">>

\* C19: for a single identity or a list of one or more, the first line of
\* formatAsCsv's result is id,personalName,context,otherNames,pronouns,title,
\* avatarUrl,socialLinks,isPrimary,createdAt,updatedAt; read as CSV the result
\* has that record and then one record per identity, in the order of the
\* input, each of 11 fields in the order of the columns.
IdentitiesOf(data) ==
    IF "identities" \in DOMAIN data THEN data.identities
    ELSE IF "id" \in DOMAIN data THEN <<data>> ELSE <<>>

HeaderLine ==
    <<"id", ",", "personalName", ",", "context", ",", "otherNames", ",", "pronouns", ",",
      "title", ",", "avatarUrl", ",", "socialLinks", ",", "isPrimary", ",", "createdAt", ",",
      "updatedAt">>

C19_CsvHeaderAndShape ==
    Returned("formatAsCsv") /\ IdentitiesOf(call.arg) # <<>> =>
        LET list == IdentitiesOf(call.arg)
            out == call.result
            rows == ParseCsv(out)
        IN  /\ Len(out) > Len(HeaderLine)
            /\ SubSeq(out, 1, Len(HeaderLine)) = HeaderLine
            /\ out[Len(HeaderLine) + 1] = "\n"
            /\ Len(rows) = 1 + Len(list)
            /\ \A k \in 1..Len(rows) : Len(rows[k]) = 11
            /\ \A k \in 1..Len(list) :
                  /\ rows[k + 1][1] = Guarded(list[k].id)
                  /\ rows[k + 1][2] = Guarded(list[k].personalName)
                  /\ rows[k + 1][3] = Guarded(list[k].context)
                  /\ rows[k + 1][6] = Guarded(orEmpty(list[k].title))
                  /\ rows[k + 1][9] \in {<<"true">>, <<"false">>}
                  /\ rows[k + 1][10] = Guarded(list[k].createdAt)

\* a list of two identities, the name of the first a line feed, was formatted
C19_Witness ==
    /\ Returned("formatAsCsv")
    /\ Len(IdentitiesOf(call.arg)) = 2
    /\ call.arg.identities[1].personalName = <<"\n">>
    /\ call.arg.identities[2].personalName = <<",">>

\* a single identity with a title that holds a comma and double quotes
C19_WitnessSingle ==
    /\ Returned("formatAsCsv")
    /\ "id" \in DOMAIN call.arg
    /\ call.arg.title # Null
    /\ call.arg.socialLinks = "two"

\* C20: for an input that carries only a message m, formatAsCsv returns the
\* line error and then m between one pair of double quotes; for an empty list
\* it returns error and "No identities found".
C20_CsvDegradedDocuments ==
    Returned("formatAsCsv") =>
        /\ "message" \in DOMAIN call.arg /\ call.arg.message # <<>> =>
              call.result = <<"error", "\n", "\"">> \o call.arg.message \o <<"\"">>
        /\ "identities" \in DOMAIN call.arg /\ call.arg.identities = <<>> =>
              call.result = <<"error", "\n", "\"", "No identities found", "\"">>

\* the same for the messages that hold none of the characters escapeCsv acts on
C20_PlainMessages ==
    Returned("formatAsCsv") =>
        /\ /\ "message" \in DOMAIN call.arg
           /\ call.arg.message # <<>>
           /\ ~HasSpecial(call.arg.message)
           /\ ~BeginsFormula(call.arg.message)
           => call.result = <<"error", "\n", "\"">> \o call.arg.message \o <<"\"">>
        /\ "identities" \in DOMAIN call.arg /\ call.arg.identities = <<>> =>
              call.result = <<"error", "\n", "\"", "No identities found", "\"">>

\* ------------------------------------------------------------------ C16
\* the session restores no account, or the gate found its token expired
\* without a way to renew it
NoCaller(w) ==
    \/ ~w.session.authenticated
    \/ /\ w.session.authProvider = "replit"
       /\ w.session.expires_at # "future"

\* what sendFormattedResponse would send for the request with this status body
Negotiated(w, data) == formatResponse(data, negotiateContent(w.accept), originalUrl(w))

\* C16: a read request (GET /identities, GET /identities/:id) that carries no
\* authenticated caller is answered 401 with an "Unauthorized" body in the
\* representation its Accept header negotiates (csv, xml, json-api or json),
\* the one a successful response to the request would have.
C16_Negotiated401 ==
    (wire.stage = "sent" /\ NoCaller(wire))
        => /\ wire.status = 401
           /\ wire.content = Negotiated(wire, Unauthorized).content
           /\ wire.contentType = Negotiated(wire, Unauthorized).contentType

\* what the code does hold: such a request is answered 401, by the gate, with
\* the JSON body whatever the Accept header
C16_GateAnswersJson ==
    (wire.stage = "sent" /\ NoCaller(wire))
        => /\ wire.status = 401
           /\ wire.content = stringify(Unauthorized)
           /\ wire.contentType = "application/json"

\* a 401 of the routes themselves (the gate admitted a session without claims)
\* is in the negotiated representation
C16_RouteAnswersNegotiated ==
    (wire.stage = "sent" /\ wire.status = 401 /\ ~NoCaller(wire))
        => /\ wire.content = Negotiated(wire, Unauthorized).content
           /\ wire.contentType = Negotiated(wire, Unauthorized).contentType

C16_WitnessRoute ==
    /\ wire.stage = "sent" /\ wire.status = 401 /\ ~NoCaller(wire)
    /\ wire.contentType = "text/csv; charset=utf-8"

\* ------------------------------------------------------------------ C21
\* An XML reader.  A CDATA section opens at <![CDATA[ and closes at the first
\* ]]> after it; what lies between is text, whatever it looks like.
RECURSIVE SectionsFrom(_, _)
SectionsFrom(doc, from) ==
    LET opens == {k \in from..Len(doc) : doc[k] = "<![CDATA["}
    IN  IF opens = {} THEN <<>>
        ELSE LET o == CHOOSE k \in opens : \A j \in opens : k <= j
                 ends == {e \in CdataEnds(doc) : e > o}
             IN  IF ends = {} THEN << <<o, 0>> >>
                 ELSE LET e == CHOOSE k \in ends : \A j \in ends : k <= j
                      IN  << <<o, e>> >> \o SectionsFrom(doc, e + 3)

Sections(doc) == SectionsFrom(doc, 1)

AllClosed(secs) == \A k \in 1..Len(secs) : secs[k][2] # 0

\* the positions of the text inside the sections, and of what is outside them
InsideCdata(doc, secs) ==
    {p \in 1..Len(doc) : \E k \in 1..Len(secs) : secs[k][1] < p /\ p < secs[k][2]}

OutsideCdata(doc, secs) ==
    {p \in 1..Len(doc) : \A k \in 1..Len(secs) : p < secs[k][1] \/ p > secs[k][2] + 2}

\* character data outside a section may hold neither a raw <, > or & nor ]]>
CleanOutside(doc, secs) ==
    LET out == OutsideCdata(doc, secs)
    IN  \A p \in out :
            /\ doc[p] \notin {"<", ">", "&"}
            /\ ~(p + 2 <= Len(doc) /\ {p + 1, p + 2} \subseteq out
                 /\ doc[p] = "]" /\ doc[p + 1] = "]" /\ doc[p + 2] = ">")

Decoded(c) == IF c = "&gt;" THEN ">" ELSE c

\* the text a reader gets from a fragment of sections and character data
ReadText(doc, secs) ==
    LET kept == InsideCdata(doc, secs) \cup OutsideCdata(doc, secs)
    IN  [i \in 1..Cardinality(kept) |->
            Decoded(doc[CHOOSE p \in kept : Cardinality({q \in kept : q < p}) = i - 1])]

\* the elements open just before position p, given where tags open and close
Depth(opening, closing, p) ==
    Cardinality({q \in opening : q < p}) - Cardinality({q \in closing : q < p})

\* every closing tag closes the innermost element still open, of its name,
\* and nothing stays open
Nested(doc, secs) ==
    LET out == OutsideCdata(doc, secs)
        opening == {p \in out : doc[p] = "<"}
        closing == {p \in out : doc[p] = "</"}
        depth == [p \in opening \cup closing |-> Depth(opening, closing, p)]
    IN  /\ Cardinality(opening) = Cardinality(closing)
        /\ \A j \in closing :
              LET inner == {i \in opening : i < j /\ depth[i] = depth[j] - 1}
              IN  /\ inner # {}
                  /\ doc[(CHOOSE i \in inner : \A k \in inner : k <= i) + 1] = doc[j + 1]

WellFormed(doc) == LET secs == Sections(doc) IN AllClosed(secs) /\ Nested(doc, secs)

HasCdataEnd(text) == CdataEnds(text) # {}

\* C21: for every text, also one that holds ]]> once, several times or
\* overlapping with further ] characters, safeCdata returns a fragment whose
\* sections are each closed by their own terminator and nothing else, an XML
\* reader gets the original text back from it, and the document formatAsXml
\* builds around such texts has every opened element closed in order.
C21_CdataSafety ==
    /\ Returned("safeCdata") =>
          LET secs == Sections(call.result)
          IN  /\ AllClosed(secs)
              /\ CleanOutside(call.result, secs)
              /\ ReadText(call.result, secs) = call.arg
    /\ Returned("formatAsXml") => WellFormed(call.result)

C21_Witness ==
    /\ Returned("safeCdata")
    /\ call.arg = <<"]", "]", "]", ">", "]", ">">>
    /\ Len(Sections(call.result)) = 2

C21_WitnessDocument ==
    /\ Returned("formatAsXml")
    /\ "identities" \in DOMAIN call.arg
    /\ HasCdataEnd(call.arg.identities[1].personalName)

\* ------------------------------------------------------------------ C22
\* A reader of the members of a JSON text: a key is a string followed by a colon.
KeyAt(doc, p, key) ==
    /\ p + 4 <= Len(doc)
    /\ doc[p] = "\"" /\ doc[p + 1] = key /\ doc[p + 2] = "\"" /\ doc[p + 3] = ":"

Members(doc, key) == {p \in 1..Len(doc) : KeyAt(doc, p, key)}

\* the value that starts at position p: null, or the text of a string
ValueAt(doc, p) ==
    IF doc[p] # "\"" THEN <<doc[p]>>
    ELSE LET close == CHOOSE q \in (p + 1)..Len(doc) :
                         /\ doc[q] = "\""
                         /\ \A r \in (p + 1)..(q - 1) : doc[r] # "\""
         IN  SubSeq(doc, p + 1, close - 1)

MemberValue(doc, key) == ValueAt(doc, (CHOOSE p \in Members(doc, key) : TRUE) + 4)

\* the ids of the resources of data whose attributes say isPrimary: true
RenderedPrimaries(doc) ==
    {ValueAt(doc, (CHOOSE i \in Members(doc, "id") :
                      /\ i < p
                      /\ \A j \in Members(doc, "id") : j < p => j <= i) + 4) :
        p \in {q \in Members(doc, "isPrimary") : doc[q + 4] = "true"}}

JsonApiList(w) ==
    /\ w.stage = "sent" /\ w.endpoint = "list" /\ w.status = 200
    /\ w.contentType = "application/vnd.api+json"

TotalIsCount(doc) ==
    MemberValue(doc, "total") = <<ToString(Cardinality(Members(doc, "type")))>>

\* C22: in every list response rendered as json-api (GET /identities with or
\* without a context filter) meta.total is the number of elements of data, and
\* meta.primary is the id of the primary identity when the rendered list has
\* one and null only when it has none.
C22_JsonApiListMeta ==
    JsonApiList(wire) =>
        /\ TotalIsCount(wire.content)
        /\ IF RenderedPrimaries(wire.content) = {}
           THEN MemberValue(wire.content, "primary") = Null
           ELSE MemberValue(wire.content, "primary") \in RenderedPrimaries(wire.content)

\* what the code does hold: the total always, the primary on the unfiltered list
C22_MetaUnfiltered ==
    JsonApiList(wire) =>
        /\ TotalIsCount(wire.content)
        /\ wire.context = Absent =>
              IF RenderedPrimaries(wire.content) = {}
              THEN MemberValue(wire.content, "primary") = Null
              ELSE MemberValue(wire.content, "primary") \in RenderedPrimaries(wire.content)

C22_WitnessUnfiltered ==
    /\ JsonApiList(wire) /\ wire.context = Absent
    /\ Cardinality(Members(wire.content, "type")) = 2
    /\ RenderedPrimaries(wire.content) = {<<"id-", "2">>}

\* ------------------------------------------------------------------ C27
DeleteDone(p) == Done(p) /\ req[p].op = "delete"

OwnedAtArrival(p) == Cardinality(OwnedBy(snap[p].identities, req[p].userId))

NotOwnTarget(p) == req[p].id \notin OwnedBy(snap[p].identities, req[p].userId)

PolicyError == Resp(400, "Cannot delete your only identity", <<>>)

C27_WitnessNone ==
    \E p \in Procs :
        /\ DeleteDone(p) /\ OwnedAtArrival(p) = 0
        /\ req[p].id \in DOMAIN snap[p].identities
        /\ resp[p].status = 404

\* ------------------------------------------------------------------ C28
\* the gate called next(): the request reached its route
Admitted(w) == w.stage = "sent" /\ ~NoCaller(w)

\* C28: a request the isAuthenticated gate admits, for a session of a
\* username/password login as for one of an OIDC login, is executed by the
\* identity route under the account of the session; the route never answers
\* 401 to a request the gate has admitted.
C28_GateAndHandlersAgree ==
    Admitted(wire) => wire.status # 401

\* what the code does hold: the requests of OIDC sessions are served, and the
\* 401 of a route goes to the sessions of a username/password login, all of them
C28_OidcServed ==
    Admitted(wire) =>
        (wire.status = 401 <=> wire.session.authProvider = "local")

C28_WitnessOidc ==
    /\ Admitted(wire) /\ wire.session.authProvider = "replit"
    /\ wire.status = 200 /\ wire.endpoint = "get"

\* ------------------------------------------------------------------ C29
\* the identities of v, by id
RowsOf(tbl, v) == [i \in OwnedBy(tbl, v) |-> tbl[i]]

\* slot p, serving a mutation, takes this step
Acts(p) == pc'[p] # pc[p] /\ req[p].op \in Mutations

\* what p's open transaction has written or deleted belongs to its caller
OwnWritesOnly(p) ==
    /\ \A i \in DOMAIN txRows'[p] : txRows'[p][i].userId = req[p].userId
    /\ \A i \in txDeleted'[p] : identities[i].userId = req[p].userId

\* C29: no step of a create, update, delete or set-primary executed for caller
\* U changes, adds or removes an identity of another account V: the 'unset
\* current primary' statement writes only rows of U, and V's identities, with
\* V's primary among them, are the same before and after.
C29_CrossOwnerFrame ==
    [][\A p \in Procs :
          Acts(p) =>
              /\ OwnWritesOnly(p)
              /\ \A v \in Users \ {req[p].userId} :
                    /\ RowsOf(identities', v) = RowsOf(identities, v)
                    /\ PrimariesOf(identities', v) = PrimariesOf(identities, v)]_vars

\* u1 made an identity primary while u2 had a primary of its own, which stays
C29_Witness ==
    \E p \in Procs :
        /\ Succeeded(p) /\ RequestsPrimary(req[p]) /\ req[p].userId = "u1"
        /\ PrimariesOf(snap[p].identities, "u1") # {}
        /\ PrimariesOf(snap[p].identities, "u1") # PrimariesOf(identities, "u1")
        /\ PrimariesOf(snap[p].identities, "u2") # {}
        /\ PrimariesOf(identities, "u2") = PrimariesOf(snap[p].identities, "u2")

\* ------------------------------------------------------------------ C30
\* a create or update without isPrimary: true in its body, or a delete
LeavesPrimaryAlone(r) ==
    \/ r.op = "delete"
    \/ r.op \in {"create", "update"} /\ r.isPrimary # "true"

\* the operation took the primary flag away from its own target, or the target itself
DropsOwnPrimary(p) ==
    /\ Succeeded(p)
    /\ req[p].id \in PrimariesOf(snap[p].identities, req[p].userId)
    /\ \/ req[p].op = "delete"
       \/ req[p].op = "update" /\ req[p].isPrimary = "false"

\* GET /api/identities builds its answer without the primary member
ListsNoPrimary(tbl, u) ==
    \A rows \in getIdentities(tbl, u, Absent) :
        find([k \in 1..Len(rows) |-> Stored(rows[k])]) = <<>>

\* C30: an operation that does not request isPrimary = true (a create with
\* isPrimary false or absent, an update whose patch has no isPrimary = true, a
\* delete) changes the isPrimary flag of no identity but its own target; so
\* after the primary identity is deleted, or updated with isPrimary = false,
\* the owner has no primary: getPrimaryIdentity returns none and GET
\* /identities answers without a primary member.
C30_NoImplicitPrimaryChange ==
    \A p \in Procs :
        (Done(p) /\ LeavesPrimaryAlone(req[p])) =>
            /\ \A i \in DOMAIN snap[p].identities \cap DOMAIN identities :
                  i # req[p].id =>
                      identities[i].isPrimary = snap[p].identities[i].isPrimary
            /\ DropsOwnPrimary(p) =>
                  /\ PrimariesOf(identities, req[p].userId) = {}
                  /\ getPrimaryIdentity(identities, req[p].userId) = {<<>>}
                  /\ ListsNoPrimary(identities, req[p].userId)

\* the primary of an owner of two identities was deleted
C30_Witness ==
    \E p \in Procs :
        /\ DropsOwnPrimary(p) /\ req[p].op = "delete"
        /\ OwnedBy(identities, req[p].userId) # {}
        /\ PrimariesOf(identities, req[p].userId) = {}

\* the primary was updated with isPrimary: false while the owner has another identity
C30_WitnessUpdate ==
    \E p \in Procs :
        /\ DropsOwnPrimary(p) /\ req[p].op = "update"
        /\ Cardinality(OwnedBy(identities, req[p].userId)) = 2

\* ------------------------------------------------------------------ properties of the public reads
SearchDone == call.fn = "search" /\ call.done
SearchServed == SearchDone /\ call.result.status = 200
PublicIdentityDone == call.fn = "getPublicIdentity" /\ call.done

\* the row a returned identity was projected from
RowIdOf(identity) == CHOOSE i \in DOMAIN identities : <<"id-", ToString(i)>> = identity.id
ReturnedIds(data) == {RowIdOf(data.identities[k]) : k \in 1..Len(data.identities)}

\* the store with row i made private
Hidden(tbl, i) == [tbl EXCEPT ![i].isDiscoverable = FALSE]

\* an id no row of any store has
MissingId == MaxPublicRows + 1

\* C23: discoverability gating.  No identity with isDiscoverable = false is an
\* element of a search result, whatever the store and the query; an identity
\* that a search returns is returned by no search on the store in which it is
\* made private; and getPublicIdentity on an identity that is not discoverable
\* gives the very response it gives on an id that does not exist.
C23_DiscoverabilityGating ==
    /\ SearchServed =>
          \A i \in ReturnedIds(call.result.data) :
              /\ identities[i].isDiscoverable
              /\ \A other \in search(Hidden(identities, i), call.arg) :
                     \A k \in 1..Len(other.identities) :
                         other.identities[k].id # <<"id-", ToString(i)>>
    /\ (/\ PublicIdentityDone
        /\ call.arg.id \in DOMAIN identities
        /\ ~identities[call.arg.id].isDiscoverable) =>
          /\ call.result.status = 404
          /\ call.result = answerPublicIdentity(identities, [call.arg EXCEPT !.id = MissingId])

\* a search that returns an identity while a private row of the store also
\* has the context and matches q
C23_Witness ==
    /\ SearchServed
    /\ call.arg.q # Null
    /\ call.result.data.identities # <<>>
    /\ \E i \in DOMAIN identities :
          /\ ~identities[i].isDiscoverable
          /\ identities[i].context = call.arg.context
          /\ matches(identities[i], call.arg.q)

\* getPublicIdentity on a private row of the store
C23_WitnessPrivate ==
    /\ PublicIdentityDone
    /\ call.arg.id \in DOMAIN identities
    /\ ~identities[call.arg.id].isDiscoverable
    /\ call.result.status = 404

\* the rows a search on the query is about: discoverable, of the requested
\* context, matching q when q is given
MatchingRows(query) ==
    {i \in DOMAIN identities :
        /\ identities[i].isDiscoverable
        /\ identities[i].context = query.context
        /\ query.q # Null => matches(identities[i], query.q)}

\* C24: search paging.  A search on a valid query returns at most limit
\* identities, each of them discoverable, of the requested context and
\* matching q when q is given; hasMore is true exactly when more than limit
\* rows of the store are such, and it is false when nothing is returned.
C24_SearchPaging ==
    (SearchDone /\ validQuery(call.arg)) =>
        /\ call.result.status = 200
        /\ Len(call.result.data.identities) <= limitOf(call.arg)
        /\ ReturnedIds(call.result.data) \subseteq MatchingRows(call.arg)
        /\ call.result.data.hasMore = "true"
              <=> Cardinality(MatchingRows(call.arg)) > limitOf(call.arg)
        /\ call.result.data.identities = <<>> => call.result.data.hasMore = "false"

\* limit 1 against two matching discoverable work identities: one result, hasMore
C24_Witness ==
    /\ SearchServed
    /\ call.arg.limit = <<1>>
    /\ call.arg.q # Null
    /\ Cardinality(MatchingRows(call.arg)) = 2
    /\ Len(call.result.data.identities) = 1
    /\ call.result.data.hasMore = "true"

\* a search that matches nothing
C24_WitnessEmpty ==
    /\ SearchServed
    /\ identities # <<>>
    /\ call.result.data.identities = <<>>
    /\ call.result.data.hasMore = "false"

PrivateFields == {"userId", "ownerId", "isDiscoverable", "createdAt", "updatedAt"}

\* what a rendered owner id or date starts with
PrivateValues == Users \cup {DateString(0)[1], toISOString(DateString(0))[1]}

\* the identities a public read returned
ReturnedIdentities ==
    IF SearchServed
    THEN {call.result.data.identities[k] : k \in 1..Len(call.result.data.identities)}
    ELSE IF PublicIdentityDone /\ call.result.status = 200 THEN {call.result.data}
    ELSE {}

\* neither the returned objects nor the rendered response hold a private
\* field: no such property, no such member in the two JSON formats, and no
\* owner id or date among the values of any format
CarriesNoPrivateField ==
    /\ \A identity \in ReturnedIdentities : DOMAIN identity \cap PrivateFields = {}
    /\ ReturnedIdentities # {} =>
          /\ \A k \in 1..Len(call.result.content) : call.result.content[k] \notin PrivateValues
          /\ call.result.contentType \in {"application/json", "application/vnd.api+json"} =>
                \A f \in PrivateFields : Members(call.result.content, f) = {}

\* the stores that differ from tbl in the owner or the dates of one row, and
\* those that differ in any private field of one row
DatedOrOwnedOtherwise(tbl) ==
    {[tbl EXCEPT ![i].userId = u, ![i].createdAt = t] :
        i \in DOMAIN tbl, u \in Users, t \in 0..1}
PrivateOtherwise(tbl) ==
    {[tbl EXCEPT ![i].userId = u, ![i].createdAt = t, ![i].isDiscoverable = disc] :
        i \in DOMAIN tbl, u \in Users, t \in 0..1, disc \in BOOLEAN}

\* the read that was served is a read the store tbl may serve as well
SameResponseOn(tbl) ==
    /\ SearchServed => call.result.data \in search(tbl, call.arg)
    /\ PublicIdentityDone => call.result.data = getPublicIdentity(tbl, call.arg.id)

C25_WitnessCsv ==
    /\ SearchServed
    /\ call.arg.accept = <<"text/csv">>
    /\ Len(call.result.data.identities) = 2

C25_WitnessPublicIdentity ==
    /\ PublicIdentityDone
    /\ call.result.status = 200
    /\ call.arg.accept = <<"application/xml">>
    /\ identities[call.arg.id].userId # call.arg.requester

\* a read across owners returns while the call is pending
CrossReadReturns(fn) == call.fn = fn /\ ~call.done /\ call'.done

\* auditLogs grew by exactly the entry last, the rest as it was
AppendedOne ==
    /\ Len(auditLogs') = Len(auditLogs) + 1
    /\ SubSeq(auditLogs', 1, Len(auditLogs)) = auditLogs

C26_WitnessRejected ==
    /\ SearchDone
    /\ call.arg.context = "work"
    /\ call.arg.limit = <<MaxLimit + 1>>
    /\ call.result.status = 400
    /\ auditLogs = <<>>
====
